---- MODULE Spec2Model ----
(***************************************************************************)
(* Local cache / reconciliation engine of the CVM manager:                 *)
(*   utils/db_manager.py   the SQLite store and its process-wide lock      *)
(*   core/cvm_manager.py   remote listing merged into the store            *)
(*   ui/main_window.py     resync, watch-set poll, start/stop commands     *)
(***************************************************************************)
EXTENDS Integers, Sequences, FiniteSets, TLC

\* ------------------------------------------------------------------ values

\* SQL NULL / Python None.
NULL == "NULL"
\* An absent optional argument (None) and a given one.
None == <<>>
Some(x) == <<x>>
\* The reserved status of a soft-deleted row.
Sentinel == "-1"
\* threading.Lock that nobody holds.
Free == "FREE"

\* Instance identifiers.
Ids == {"ins-a", "ins-b"}
\* Regions of the account (manager default first).
Regions == {"ap-beijing", "ap-shanghai"}
\* InstanceState values the remote service reports.
RemoteStates == {"PENDING", "RUNNING", "STOPPED", "STARTING", "STOPPING"}
\* InstanceState values of a record handed to the store: a remote state, or
\* an empty/absent one.
RecordStates == {"", "RUNNING", "STOPPED"}
\* Most records per upsert batch in the store-level specification.
MaxBatch == 2

\* ------------------------------------------------------- store: pure part

\* Python's `a or b`: the first operand unless it is falsy (None, "").
or_else(a, b) == IF a = NULL \/ a = "" THEN b ELSE a

\* _first_ip: a non-empty list gives its head; an empty list (or an absent
\* key, which `x or inst.get("public_ip")` turns into None) gives None.
first_ip(value) == IF Len(value) > 0 THEN Head(value) ELSE NULL

\* COALESCE(a, b) of SQL.
coalesce(a, b) == IF a # NULL THEN a ELSE b

\* SQL `a != b` used as a WHERE condition: a comparison with NULL is not true.
sql_ne(a, b) == a # NULL /\ b # NULL /\ a # b

\* A record as the manager hands it to upsert_instances (CamelCase keys).
Record(id, st, rg, pub, priv, exp, crt) ==
    [InstanceId |-> id, InstanceState |-> st, Region |-> rg,
     PublicIpAddresses |-> pub, PrivateIpAddresses |-> priv,
     ExpiredTime |-> exp, CreatedTime |-> crt]

\* The parameter dict of upsert_instances: what the INSERT binds.
excluded_row(inst) ==
    [status       |-> or_else(inst.InstanceState, NULL),
     region       |-> or_else(inst.Region, NULL),
     public_ip    |-> first_ip(inst.PublicIpAddresses),
     private_ip   |-> first_ip(inst.PrivateIpAddresses),
     expired_time |-> or_else(inst.ExpiredTime, NULL),
     created_time |-> or_else(inst.CreatedTime, NULL)]

\* The upsert with expired_time and created_time assigned like every other
\* column, `x=excluded.x`.
upsert_row_plain_times(old, inst) == excluded_row(inst)

\* The upsert with the stored operands of its two COALESCEs exchanged.
upsert_row_crossed_times(old, inst) ==
    LET ex == excluded_row(inst) IN
    IF old = None THEN ex
    ELSE LET o == old[1] IN
         [ex EXCEPT !.expired_time = coalesce(ex.expired_time, o.created_time),
                    !.created_time = coalesce(o.expired_time, ex.created_time)]

\* INSERT ... ON CONFLICT(instance_id) DO UPDATE SET ... for one record.
upsert_row(old, inst) ==
    LET ex == excluded_row(inst) IN
    IF old = None THEN ex
    ELSE LET o == old[1] IN
         [status       |-> ex.status,
          region       |-> ex.region,
          public_ip    |-> ex.public_ip,
          private_ip   |-> ex.private_ip,
          expired_time |-> coalesce(ex.expired_time, o.expired_time),
          created_time |-> coalesce(o.created_time, ex.created_time)]

\* upsert_instances: the records of the batch in order, one transaction.
RECURSIVE upsert_instances(_, _)
upsert_instances(d, instances) ==
    IF instances = <<>> THEN d
    ELSE LET inst == Head(instances)
             id   == inst.InstanceId
             old  == IF id \in DOMAIN d THEN Some(d[id]) ELSE None
         IN  upsert_instances(
                 [i \in DOMAIN d \cup {id} |-> IF i = id THEN upsert_row(old, inst) ELSE d[i]],
                 Tail(instances))

\* DELETE FROM instances: the rows are removed, not marked.
mark_all_hard_delete(d) == <<>>

\* UPDATE instances SET status='-1' WHERE status != '-1'
mark_all_instances_as_deleted(d) ==
    [i \in DOMAIN d |->
        IF sql_ne(d[i].status, Sentinel)
        THEN [d[i] EXCEPT !.status = Sentinel] ELSE d[i]]

\* batch_sync_data(instances=...), its step on the instances table: the
\* UPDATE that marks every row, then the same upsert for each record.
batch_sync_data(d, instances) ==
    IF instances = None THEN d
    ELSE upsert_instances(mark_all_instances_as_deleted(d), instances[1])

\* The UPDATE assigning its two address parameters as it assigns status.
update_instance_status_plain_ips(d, instance_id, status, public_ip, private_ip) ==
    [i \in DOMAIN d |->
        IF i = instance_id
        THEN [d[i] EXCEPT !.status = status, !.public_ip = public_ip,
                          !.private_ip = private_ip]
        ELSE d[i]]

\* UPDATE instances SET status = ?, public_ip = COALESCE(?, public_ip),
\* private_ip = COALESCE(?, private_ip) WHERE instance_id = ?
update_instance_status(d, instance_id, status, public_ip, private_ip) ==
    [i \in DOMAIN d |->
        IF i = instance_id
        THEN [d[i] EXCEPT !.status = status,
                          !.public_ip = coalesce(public_ip, d[i].public_ip),
                          !.private_ip = coalesce(private_ip, d[i].private_ip)]
        ELSE d[i]]

\* The UPDATE of soft_delete_missing, run for a non-empty valid_ids.
soft_delete_update(d, valid_ids) ==
    [i \in DOMAIN d |->
        IF sql_ne(d[i].status, Sentinel) /\ i \notin valid_ids
        THEN [d[i] EXCEPT !.status = Sentinel] ELSE d[i]]

\* soft_delete_missing: returns at once for None and for an empty list.
soft_delete_missing(d, valid_ids) ==
    IF valid_ids = None THEN d
    ELSE IF Cardinality(valid_ids[1]) = 0 THEN d
    ELSE soft_delete_update(d, valid_ids[1])

\* The SELECT of list_instances: WHERE status != '-1' OR status IS NULL.
list_select(d) ==
    {i \in DOMAIN d : sql_ne(d[i].status, Sentinel) \/ d[i].status = NULL}

\* The SELECT of get_instances: WHERE instance_id IN (...).
get_select(d, instance_ids) ==
    {i \in DOMAIN d : i \in instance_ids}

\* --------------------------------------- store: statements of a write

\* The config, regions, zones and images tables, empty.
NoCache == [config |-> NULL, regions |-> {}, zones |-> {}, images |-> {}]

\* The tables of the database file: instances, and the other four.
Tables(d, c) == [db |-> d, cache |-> c]

\* One SQL statement of a mutating method and what it binds.
Stmt(sql, arg) == [sql |-> sql, arg |-> arg]

\* The INSERTs of a `for x in items` loop (or of an executemany) for region rg.
inserts(sql, rg, items) == [k \in 1..Len(items) |-> Stmt(sql, <<rg, items[k]>>)]

\* batch_sync_data, step 2: for each region of zones_map its DELETE and INSERTs.
RECURSIVE zone_statements(_)
zone_statements(zones_map) ==
    IF zones_map = <<>> THEN <<>>
    ELSE <<Stmt("delete_zones", Head(zones_map).region)>>
            \o inserts("insert_zone", Head(zones_map).region, Head(zones_map).zones)
            \o zone_statements(Tail(zones_map))

\* batch_sync_data, step 3: the same for images_map, type PUBLIC_IMAGE.
RECURSIVE image_statements(_)
image_statements(images_map) ==
    IF images_map = <<>> THEN <<>>
    ELSE <<Stmt("delete_images", <<Head(images_map).region, "PUBLIC_IMAGE">>)>>
            \o inserts("insert_image", <<Head(images_map).region, "PUBLIC_IMAGE">>, Head(images_map).images)
            \o image_statements(Tail(images_map))

\* The statements a mutating method executes between `with _lock,
\* self._connect() as conn` and conn.commit(), in order.
statements(c) ==
    CASE c.op = "upsert_instances" ->
            [k \in 1..Len(c.batch) |-> Stmt("upsert", c.batch[k])]
      [] c.op = "mark_all_instances_as_deleted" -> <<Stmt("mark_all", NULL)>>
      [] c.op = "update_instance_status" -> <<Stmt("update_status", <<c.id, c.status>>)>>
      [] c.op = "soft_delete_missing" -> <<Stmt("soft_delete", c.ids[1])>>
      [] c.op = "set_config_struct" -> <<Stmt("set_config", c.config)>>
      [] c.op = "replace_regions" ->
            <<Stmt("delete_regions", NULL)>>
                \o [k \in 1..Len(c.regions) |-> Stmt("insert_region", c.regions[k])]
      [] c.op = "replace_zones" ->
            <<Stmt("delete_zones", c.region)>> \o inserts("insert_zone", c.region, c.zones)
      [] c.op = "replace_images" ->
            <<Stmt("delete_images", <<c.region, c.image_type>>)>>
                \o inserts("insert_image", <<c.region, c.image_type>>, c.images)
      [] c.op = "batch_sync_data" ->
            (IF c.regions # <<>>
             THEN <<Stmt("delete_regions", NULL)>>
                     \o [k \in 1..Len(c.regions) |-> Stmt("insert_region", c.regions[k])]
             ELSE <<>>)
                \o zone_statements(c.zones_map)
                \o image_statements(c.images_map)
                \o (IF c.instances # None
                    THEN <<Stmt("mark_all", NULL)>>
                            \o [k \in 1..Len(c.instances[1]) |-> Stmt("upsert", c.instances[1][k])]
                    ELSE <<>>)

\* DELETE FROM zones, without its WHERE clause.
delete_zones_truncate(zones, rg) == {}

\* DELETE FROM zones WHERE region = ?
delete_zones(zones, rg) == {z \in zones : z[1] # rg}

\* What one statement does to the tables the connection sees.
execute(w, s) ==
    CASE s.sql = "upsert" -> [w EXCEPT !.db = upsert_instances(w.db, <<s.arg>>)]
      [] s.sql = "mark_all" -> [w EXCEPT !.db = mark_all_instances_as_deleted(w.db)]
      [] s.sql = "update_status" ->
            [w EXCEPT !.db = update_instance_status(w.db, s.arg[1], s.arg[2], NULL, NULL)]
      [] s.sql = "soft_delete" -> [w EXCEPT !.db = soft_delete_update(w.db, s.arg)]
      [] s.sql = "set_config" -> [w EXCEPT !.cache.config = s.arg]
      [] s.sql = "delete_regions" -> [w EXCEPT !.cache.regions = {}]
      [] s.sql = "insert_region" -> [w EXCEPT !.cache.regions = @ \cup {s.arg}]
      [] s.sql = "delete_zones" -> [w EXCEPT !.cache.zones = delete_zones(@, s.arg)]
      [] s.sql = "insert_zone" -> [w EXCEPT !.cache.zones = @ \cup {s.arg}]
      [] s.sql = "delete_images" ->
            [w EXCEPT !.cache.images = {m \in @ : m[1] # s.arg}]
      [] s.sql = "insert_image" -> [w EXCEPT !.cache.images = @ \cup {s.arg}]

\* The statements stmts executed in order on the tables w.
RECURSIVE run(_, _)
run(w, stmts) ==
    IF stmts = <<>> THEN w ELSE run(execute(w, Head(stmts)), Tail(stmts))

\* ---------------------------------------------------------------- state

VARIABLES
    db,           \* instances table: instance_id -> row, for the ids that have one
    lock,         \* holder of db_manager._lock, or Free
    db_singleton, \* whether _db_singleton has been created
    cache,        \* the config, regions, zones and images tables
    pc,           \* per thread: position inside the store call it is running
    cur,          \* per thread: the store call it runs, or ran last
    ret,          \* per thread: what its last read returned (id -> row)
    skipped,      \* per thread: its last read found the lock held and gave up
    tx,           \* per thread: the transaction of the connection its write opened
    call,         \* store-level specification: the last store call and its input
    step,         \* store-level specification: position in the resync sequence
    remote,       \* the cloud account: instance id -> its state and region
    region,       \* CVMManager.region, the region the shared client talks to
    hpc,          \* UI thread: position inside the handler it is running
    gi,           \* UI thread: locals of the CVMManager.get_instances call it is in
    rf,           \* UI thread: locals of refresh_instances, and the table it started from
    cmd,          \* batch_start/batch_stop: the command's closure variables, how far
                  \* it and its worker task got, and the statuses stored when it began
    wk,           \* the worker thread of create_instances: its task and position
    view,         \* what the instance list widget shows: instance id -> status
    watch,        \* pending_instance_ids, starting_instance_ids, stopping_instance_ids,
                  \* and whether pending_poll_timer is active
    reset,        \* CVMManager.reset_pwd: its locals, and the requests it sent
    creation,     \* CVMManager.create: the call stack of create/_create_fallback
                  \* frames, and the RunInstances requests sent
    preload,      \* main.preload_reference_data: its position and the fetches done
    helper,       \* core.preload: the helper process and the call's position
    timers,       \* the three QTimers: expired ticks and the handler running
    bg_threads,   \* CVMApp._bg_threads, and the state of every QThread started
    conf,         \* config_manager: the last call, what it was given and returned
    paging,       \* CVMManager.get_instances: the DescribeInstances requests of one call
    imgs          \* the images table by row, and the last call made on it

storeVars == <<db, cache, lock, db_singleton>>
threadVars == <<pc, cur, ret, skipped, tx>>
\* The application around the store.
\* The operations modelled on their own.
moreVars == <<conf, paging, imgs>>
opVars == <<reset, creation, preload, helper, timers, bg_threads, moreVars>>
opVars_but_reset == <<creation, preload, helper, timers, bg_threads, moreVars>>
opVars_but_preload == <<reset, creation, helper, timers, bg_threads, moreVars>>
opVars_but_helper == <<reset, creation, preload, timers, bg_threads, moreVars>>
opVars_but_timers == <<reset, creation, preload, helper, bg_threads, moreVars>>
opVars_but_bg_threads == <<reset, creation, preload, helper, timers, moreVars>>
opVars_but_conf == <<reset, creation, preload, helper, timers, bg_threads, paging, imgs>>
opVars_but_paging == <<reset, creation, preload, helper, timers, bg_threads, conf, imgs>>
opVars_but_imgs == <<reset, creation, preload, helper, timers, bg_threads, conf, paging>>
opVars_but_creation == <<reset, preload, helper, timers, bg_threads, moreVars>>
appVars == <<call, step, remote, region, hpc, gi, rf, cmd, wk, view, watch>>
sysVars == <<remote, region, hpc, gi, rf, cmd, wk, view, watch, opVars>>
\* What belongs to the callers of the store, which no store call touches.
callerVars == <<appVars, opVars>>
vars == <<db, cache, lock, db_singleton, pc, cur, ret, skipped, tx, call, step,
          remote, region, hpc, gi, rf, cmd, wk, view, watch, opVars>>

\* The UI/event thread and the background workers.
Threads == {"ui", "w1"}

\* ------------------------------------------ store calls, run by a thread

\* A store call: its name and its arguments (those it has).
Call(op, batch, ids, id, status) ==
    [op |-> op, batch |-> batch, ids |-> ids, id |-> id, status |-> status]

NoCall == Call("none", <<>>, None, NULL, NULL)

\* A call of a method that writes the other tables, args its arguments.
CacheCall(op, args) == [op |-> op] @@ args

\* No transaction: the thread's connection has none open.
NoTx == [open |-> FALSE, before |-> Tables(<<>>, NoCache), work |-> Tables(<<>>, NoCache),
         done |-> 0, raised |-> FALSE]

\* The mutating methods that open with `with _lock, self._connect()`.
WriteOps == {"upsert_instances", "mark_all_instances_as_deleted",
             "update_instance_status", "soft_delete_missing",
             "set_config_struct", "replace_regions", "replace_zones",
             "replace_images", "batch_sync_data"}
\* The methods that open with `_lock.acquire(blocking=False)`.
ReadOps == {"list_instances", "get_instances"}

\* `not x` of an optional list: None or empty.
is_empty(ids) == IF ids = None THEN TRUE ELSE Cardinality(ids[1]) = 0

\* A thread calls a store method (or get_db): it stands at its first line.
invoke(t, c) ==
    /\ pc[t] = "idle"
    /\ pc' = [pc EXCEPT ![t] = "called"]
    /\ cur' = [cur EXCEPT ![t] = c]
    /\ ret' = [ret EXCEPT ![t] = <<>>]
    /\ skipped' = [skipped EXCEPT ![t] = FALSE]
    /\ tx' = [tx EXCEPT ![t] = NoTx]
    /\ UNCHANGED <<db, cache, lock, db_singleton>>

\* The argument checks that make a mutating method return before `with
\* _lock`: soft_delete_missing for None or [], replace_zones for a falsy
\* region, replace_images for a falsy region or image type.
returns_early(c) ==
    CASE c.op = "soft_delete_missing" -> is_empty(c.ids)
      [] c.op = "replace_zones" -> or_else(c.region, NULL) = NULL
      [] c.op = "replace_images" ->
            or_else(c.region, NULL) = NULL \/ or_else(c.image_type, NULL) = NULL
      [] OTHER -> FALSE

\* soft_delete_missing without its `len(valid_ids) == 0` return: the UPDATE
\* runs with an empty NOT IN list.
soft_delete_return_no_len_check(t) ==
    /\ pc[t] = "called"
    /\ cur[t].op = "soft_delete_missing"
    /\ is_empty(cur[t].ids)
    /\ db' = IF cur[t].ids = None THEN db ELSE soft_delete_update(db, {})
    /\ pc' = [pc EXCEPT ![t] = "idle"]
    /\ UNCHANGED <<lock, db_singleton, cache, tx, cur, ret, skipped, callerVars>>

\* soft_delete_missing returns before `with _lock` for None and for [].
soft_delete_return(t) ==
    /\ pc[t] = "called"
    /\ cur[t].op = "soft_delete_missing"
    /\ is_empty(cur[t].ids)
    /\ pc' = [pc EXCEPT ![t] = "idle"]
    /\ UNCHANGED <<db, lock, db_singleton, cache, tx, cur, ret, skipped, callerVars>>

\* replace_zones / replace_images return before `with _lock`.
replace_return(t) ==
    /\ pc[t] = "called"
    /\ cur[t].op \in {"replace_zones", "replace_images"}
    /\ returns_early(cur[t])
    /\ pc' = [pc EXCEPT ![t] = "idle"]
    /\ UNCHANGED <<db, lock, db_singleton, cache, tx, cur, ret, skipped, callerVars>>

\* A mutating method that opens its connection without `with _lock`.
write_acquire_no_lock(t) ==
    /\ pc[t] = "called"
    /\ cur[t].op \in WriteOps
    /\ ~returns_early(cur[t])
    /\ tx' = [tx EXCEPT ![t] = [open |-> TRUE, before |-> Tables(db, cache),
                                work |-> Tables(db, cache), done |-> 0, raised |-> FALSE]]
    /\ pc' = [pc EXCEPT ![t] = "commit"]
    /\ UNCHANGED <<db, lock, db_singleton, cache, cur, ret, skipped, callerVars>>

\* `with _lock, self._connect() as conn`: a mutating method waits until
\* nobody holds the lock, takes it and opens a connection.
write_acquire(t) ==
    /\ pc[t] = "called"
    /\ cur[t].op \in WriteOps
    /\ ~returns_early(cur[t])
    /\ lock = Free
    /\ lock' = t
    /\ tx' = [tx EXCEPT ![t] = [open |-> TRUE, before |-> Tables(db, cache),
                                work |-> Tables(db, cache), done |-> 0, raised |-> FALSE]]
    /\ pc' = [pc EXCEPT ![t] = "commit"]
    /\ UNCHANGED <<db, db_singleton, cache, cur, ret, skipped, callerVars>>

\* The statements of cur[t] that its transaction has not executed yet.
pending_statements(t) ==
    SubSeq(statements(cur[t]), tx[t].done + 1, Len(statements(cur[t])))

\* A connection in autocommit mode: the statement changes the tables of the
\* file at once.
write_execute_autocommit(t) ==
    /\ pc[t] = "commit"
    /\ lock = t
    /\ pending_statements(t) # <<>>
    /\ LET w == execute(tx[t].work, Head(pending_statements(t)))
       IN  /\ tx' = [tx EXCEPT ![t].work = w, ![t].done = @ + 1]
           /\ db' = w.db
           /\ cache' = w.cache
    /\ UNCHANGED <<lock, db_singleton, pc, cur, ret, skipped, callerVars>>

\* cur.execute(...): the next statement runs inside the connection's open
\* transaction; the tables of the file do not change.
write_execute(t) ==
    /\ pc[t] = "commit"
    /\ lock = t
    /\ pending_statements(t) # <<>>
    /\ tx' = [tx EXCEPT ![t].work = execute(@, Head(pending_statements(t))),
                        ![t].done = @ + 1]
    /\ UNCHANGED <<db, cache, lock, db_singleton, pc, cur, ret, skipped, callerVars>>

\* An exception inside the `with` (a record that is no dict, a value SQLite
\* cannot bind, a constraint): the connection's __exit__ rolls back, the
\* lock's __exit__ releases, the exception goes to the caller.
write_raise(t) ==
    /\ pc[t] = "commit"
    /\ lock = t
    /\ tx' = [tx EXCEPT ![t] = [NoTx EXCEPT !.raised = TRUE, !.done = tx[t].done]]
    /\ lock' = Free
    /\ pc' = [pc EXCEPT ![t] = "idle"]
    /\ UNCHANGED <<db, cache, db_singleton, cur, ret, skipped, callerVars>>

\* The statements still to run, conn.commit() and the end of `with _lock`:
\* the tables change, the lock is free.
write_commit(t) ==
    /\ pc[t] = "commit"
    /\ lock = t
    /\ LET w == run(tx[t].work, pending_statements(t))
       IN  /\ db' = w.db
           /\ cache' = w.cache
    /\ tx' = [tx EXCEPT ![t] = NoTx]
    /\ lock' = Free
    /\ pc' = [pc EXCEPT ![t] = "idle"]
    /\ UNCHANGED <<db_singleton, cur, ret, skipped, callerVars>>

\* A read that takes the lock as the writers do, `with _lock`.
read_try_blocking(t) ==
    /\ pc[t] = "called"
    /\ cur[t].op \in ReadOps
    /\ IF cur[t].op = "get_instances" /\ is_empty(cur[t].ids)
       THEN /\ ret' = [ret EXCEPT ![t] = <<>>]
            /\ pc' = [pc EXCEPT ![t] = "idle"]
            /\ UNCHANGED lock
       ELSE /\ lock = Free
            /\ lock' = t
            /\ pc' = [pc EXCEPT ![t] = "select"]
            /\ UNCHANGED ret
    /\ UNCHANGED <<db, db_singleton, cache, tx, cur, skipped, callerVars>>

\* list_instances / get_instances: `if not instance_ids: return []`, then
\* _lock.acquire(blocking=False), returning [] when the lock is held.
read_try(t) ==
    /\ pc[t] = "called"
    /\ cur[t].op \in ReadOps
    /\ IF cur[t].op = "get_instances" /\ is_empty(cur[t].ids)
       THEN /\ ret' = [ret EXCEPT ![t] = <<>>]
            /\ pc' = [pc EXCEPT ![t] = "idle"]
            /\ UNCHANGED <<lock, skipped>>
       ELSE IF lock # Free
       THEN /\ ret' = [ret EXCEPT ![t] = <<>>]
            /\ skipped' = [skipped EXCEPT ![t] = TRUE]
            /\ pc' = [pc EXCEPT ![t] = "idle"]
            /\ UNCHANGED lock
       ELSE /\ lock' = t
            /\ pc' = [pc EXCEPT ![t] = "select"]
            /\ UNCHANGED <<ret, skipped>>
    /\ UNCHANGED <<db, db_singleton, cache, tx, cur, callerVars>>

\* The rows a read returns.
selected_rows(d, c) ==
    LET found == IF c.op = "list_instances" THEN list_select(d)
                 ELSE get_select(d, c.ids[1])
    IN  [i \in found |-> d[i]]

\* The SELECT, then `finally: _lock.release()`.
read_select(t) ==
    /\ pc[t] = "select"
    /\ lock = t
    /\ ret' = [ret EXCEPT ![t] = selected_rows(db, cur[t])]
    /\ lock' = Free
    /\ pc' = [pc EXCEPT ![t] = "idle"]
    /\ UNCHANGED <<db, db_singleton, cache, tx, cur, skipped, callerVars>>

\* get_db(): `with _lock:` create the singleton if there is none, return it.
get_db(t) ==
    /\ pc[t] = "called"
    /\ cur[t].op = "get_db"
    /\ lock = Free
    /\ db_singleton' = TRUE
    /\ pc' = [pc EXCEPT ![t] = "idle"]
    /\ UNCHANGED <<db, cache, tx, lock, cur, ret, skipped, callerVars>>

\* Thread t waits for the lock another thread holds.
Blocked(t) ==
    /\ pc[t] = "called"
    /\ \/ cur[t].op = "get_db"
       \/ cur[t].op \in WriteOps /\ ~returns_early(cur[t])
    /\ lock # Free

\* ------------------------------------------------- store-level operations

\* Records a caller may hand to the store for one id.
StoreRecords(i) ==
    {Record(i, st, rg, <<>>, <<>>, NULL, NULL) : st \in RecordStates, rg \in Regions}

\* Batches of at most MaxBatch records with distinct ids.
RECURSIVE BatchesOver(_)
BatchesOver(S) ==
    IF S = {} THEN {<<>>}
    ELSE UNION {{<<r>> \o rest : r \in StoreRecords(i), rest \in BatchesOver(S \ {i})} : i \in S}

StoreBatches == UNION {BatchesOver(S) : S \in {T \in SUBSET Ids : Cardinality(T) <= MaxBatch}}

\* Batches a full listing can return: every record carries a remote state.
ListingBatches == {b \in StoreBatches : \A k \in 1..Len(b) : b[k].InstanceState \in RemoteStates}

BatchIds(b) == {b[k].InstanceId : k \in 1..Len(b)}

\* No thread inside a store call.
InitThreads ==
    /\ pc = [t \in Threads |-> "idle"]
    /\ cur = [t \in Threads |-> NoCall]
    /\ ret = [t \in Threads |-> <<>>]
    /\ skipped = [t \in Threads |-> FALSE]
    /\ tx = [t \in Threads |-> NoTx]

\* No instance in the account.
NoRemote == [i \in Ids |-> [state |-> "NONE", region |-> NULL, ips |-> <<>>]]

NoGi == [ids |-> None, after |-> "idle", raised |-> FALSE, ret |-> <<>>]
NoRf == [sync_only |-> FALSE, after |-> "idle", before |-> <<>>]
NoCmd == [kind |-> "none", phase |-> "none", task |-> "none", selected |-> {},
          valid_ids |-> {}, original_states |-> <<>>, before |-> <<>>, todo |-> {}]
NoWk == [pc |-> "idle", task |-> "none", ids |-> {}, region |-> NULL]
NoWatch == [pending |-> {}, starting |-> {}, stopping |-> {}, active |-> FALSE]
NoReset == [pc |-> "idle", ids |-> {}, listed |-> <<>>, running |-> {}, sent |-> FALSE,
            force |-> FALSE, started |-> {}, start_failed |-> FALSE]
NoCreation == [stack |-> <<>>, sold |-> {}, sent |-> <<>>, outcome |-> None, final |-> None]
NoPreload == [pc |-> "idle", env |-> NULL, before |-> NULL, regions |-> <<>>,
              task |-> [r \in Regions |-> "absent"], store_failed |-> {}]
NoHelper == [pc |-> "idle", server |-> "down", exe |-> FALSE, configured |-> FALSE,
             checks |-> 0, polls |-> 0, started |-> FALSE, ready |-> FALSE, posted |-> FALSE,
             resp |-> [status |-> 0, success |-> FALSE], outcome |-> "none",
             reason |-> NULL, store |-> NULL, go_proc |-> <<>>, launched |-> FALSE,
             server_at_exit |-> NULL]
NoTimers == [expired |-> [t \in {"refresh_timer", "db_poll_timer", "pending_poll_timer"} |-> 0],
             running |-> NULL, during |-> {}, deferred |-> FALSE]
NoBgThreads == [registry |-> {}, state |-> [k \in {"th1", "th2", "th3"} |-> "unused"],
                signal |-> [k \in {"th1", "th2", "th3"} |-> "none"], closed |-> FALSE]

\* The application at rest: no handler running, no task, nothing shown.
NoImgs == [rows |-> {}, op |-> "none", region |-> NULL, image_type |-> NULL,
           images |-> <<>>, before |-> {}, raised |-> FALSE, result |-> <<>>]
NoConf == [op |-> "none", before |-> <<>>, given |-> <<>>, result |-> <<>>]
NoPaging == [pc |-> "idle", total |-> 0, instance_ids |-> <<>>, offset |-> 0, i |-> 0,
             requests |-> <<>>, all_instances |-> <<>>, upserted |-> <<>>,
             soft_deleted |-> <<>>]

InitOps ==
    /\ reset = NoReset
    /\ creation = NoCreation
    /\ preload = NoPreload
    /\ helper = NoHelper
    /\ timers = NoTimers
    /\ bg_threads = NoBgThreads
    /\ conf = NoConf
    /\ paging = NoPaging
    /\ imgs = NoImgs

InitApp ==
    /\ InitOps
    /\ remote = NoRemote
    /\ region = "ap-beijing"
    /\ hpc = "idle"
    /\ gi = NoGi
    /\ rf = NoRf
    /\ cmd = NoCmd
    /\ wk = NoWk
    /\ view = <<>>
    /\ watch = NoWatch

InitStore ==
    /\ db = <<>>
    /\ lock = Free
    /\ db_singleton = FALSE
    /\ cache = NoCache
    /\ InitThreads
    /\ call = NoCall
    /\ step = "idle"
    /\ InitApp

\* upsertInstances(records), any caller.
StoreUpsert ==
    /\ step \in {"idle", "synced"}
    /\ \E b \in StoreBatches :
        /\ db' = upsert_instances(db, b)
        /\ call' = Call("upsert_instances", b, None, NULL, NULL)
    /\ step' = "idle"
    /\ UNCHANGED <<cache, lock, db_singleton, threadVars, sysVars>>

\* updateInstanceStatus(id, status), any caller.
StoreUpdateStatus ==
    /\ step \in {"idle", "synced"}
    /\ \E i \in Ids, st \in {"STARTING", "STOPPING", Sentinel, NULL} :
        /\ db' = update_instance_status(db, i, st, NULL, NULL)
        /\ call' = Call("update_instance_status", <<>>, None, i, st)
    /\ step' = "idle"
    /\ UNCHANGED <<cache, lock, db_singleton, threadVars, sysVars>>

\* softDeleteMissing(validIds), validIds a list of ids or None.
StoreSoftDelete ==
    /\ step \in {"idle", "synced"}
    /\ \E v \in {Some(S) : S \in SUBSET Ids} \cup {None} :
        /\ db' = soft_delete_missing(db, v)
        /\ call' = Call("soft_delete_missing", <<>>, v, NULL, NULL)
    /\ step' = "idle"
    /\ UNCHANGED <<cache, lock, db_singleton, threadVars, sysVars>>

\* markAllDeleted() on its own.
StoreMarkAll ==
    /\ step \in {"idle", "synced"}
    /\ db' = mark_all_instances_as_deleted(db)
    /\ call' = Call("mark_all_instances_as_deleted", <<>>, None, NULL, NULL)
    /\ step' = "idle"
    /\ UNCHANGED <<cache, lock, db_singleton, threadVars, sysVars>>

\* Full resync, first half: markAllDeleted().
ResyncMark ==
    /\ step \in {"idle", "synced"}
    /\ db' = mark_all_instances_as_deleted(db)
    /\ call' = Call("mark_all_instances_as_deleted", <<>>, None, NULL, NULL)
    /\ step' = "marked"
    /\ UNCHANGED <<cache, lock, db_singleton, threadVars, sysVars>>

\* Full resync, second half: upsertInstances(S), S the listing's records.
ResyncUpsert ==
    /\ step = "marked"
    /\ \E b \in ListingBatches :
        /\ db' = upsert_instances(db, b)
        /\ call' = Call("upsert_instances", b, None, NULL, NULL)
    /\ step' = "synced"
    /\ UNCHANGED <<cache, lock, db_singleton, threadVars, sysVars>>

NextStore ==
    \/ StoreUpsert
    \/ StoreUpdateStatus
    \/ StoreSoftDelete
    \/ StoreMarkAll
    \/ ResyncMark
    \/ ResyncUpsert

SpecStore == InitStore /\ [][NextStore]_vars

\* C1: after markAllDeleted() and then upsertInstances(S), for any store
\* contents and any listing S, every instance of S has the status the listing
\* observed, every other stored instance has the sentinel, and
\* listInstances() returns exactly the ids of S.
C1_FullResyncConverges ==
    step = "synced" =>
        LET S == call.batch IN
        /\ \A k \in 1..Len(S) : db[S[k].InstanceId].status = S[k].InstanceState
        /\ \A i \in DOMAIN db \ BatchIds(S) : db[i].status = Sentinel
        /\ list_select(db) = BatchIds(S)

\* C10: softDeleteMissing(validIds) with a non-empty validIds sets the
\* sentinel on exactly the stored instances that are not in validIds and not
\* already soft-deleted, keeps the status of the others, and adds or removes
\* no row.
C10_SoftDeleteExactlyMissing ==
    [][(call'.op = "soft_delete_missing" /\ ~is_empty(call'.ids)) =>
        /\ DOMAIN db' = DOMAIN db
        /\ \A i \in DOMAIN db :
              db'[i].status =
                 IF i \notin call'.ids[1] /\ db[i].status # Sentinel
                 THEN Sentinel ELSE db[i].status]_vars

\* C11: markAllDeleted() sets every row to the sentinel, whatever the table
\* held (rows with an empty/NULL status included): right after it every row
\* has status '-1' and listInstances() returns no row.
C11_MarkAllHidesEveryRow ==
    [][call'.op = "mark_all_instances_as_deleted" =>
        /\ \A i \in DOMAIN db' : db'[i].status = Sentinel
        /\ list_select(db') = {}]_vars

\* ------------------------------------------- records merged into rows

\* Records of the listing for one id: a state and region, addresses or
\* none, times or none.
MergeRecords(i) ==
    {Record(i, sr[1], sr[2], pub, priv, exp, crt) :
        sr \in {<<"RUNNING", "ap-beijing">>, <<"STOPPED", "ap-shanghai">>},
        pub \in {<<>>, <<"1.2.3.4">>}, priv \in {<<>>, <<"10.0.0.5">>},
        exp \in {NULL, "2026-01-01", "2026-02-01"},
        crt \in {NULL, "2025-01-01", "2025-02-01"}}

\* Records that differ in their private address and their times only.
MergeTimeRecords(i) ==
    {Record(i, "RUNNING", "ap-beijing", <<>>, priv, exp, crt) :
        priv \in {<<>>, <<"10.0.0.5">>},
        exp \in {NULL, "2026-01-01"}, crt \in {NULL, "2025-01-01"}}

\* Batches handed to the store: one record of ins-a, or two records, twice
\* for ins-a or for ins-a and ins-b.
MergeBatches ==
    {<<r>> : r \in MergeRecords("ins-a")}
        \cup {<<r, q>> : r \in MergeTimeRecords("ins-a"),
                         q \in MergeTimeRecords("ins-a")
                                 \cup {Record("ins-b", "STOPPED", "ap-beijing", <<>>, <<>>, NULL, NULL)}}

\* upsertInstances(records) of a listing.
MergeUpsert ==
    /\ \E b \in MergeBatches :
        /\ db' = upsert_instances(db, b)
        /\ call' = Call("upsert_instances", b, None, NULL, NULL)
    /\ UNCHANGED <<cache, lock, db_singleton, threadVars, step, sysVars>>

\* batch_sync_data(instances = records).
MergeSync ==
    /\ \E b \in MergeBatches :
        /\ db' = batch_sync_data(db, Some(b))
        /\ call' = Call("batch_sync_data", b, None, NULL, NULL)
    /\ UNCHANGED <<cache, lock, db_singleton, threadVars, step, sysVars>>

NextMerge ==
    \/ MergeUpsert
    \/ MergeSync

SpecMerge == InitStore /\ [][NextMerge]_vars

\* Record k is the batch's only record for its instance.
only_record(b, k) == \A j \in 1..Len(b) : b[j].InstanceId = b[k].InstanceId => j = k

\* C12: a record without expiredTime and createdTime, upserted for a stored
\* instance, leaves the stored non-null values of those two columns as they
\* were, and every other column takes the record's value (status, region,
\* and the first address of each address list the record carries).
C12_StickyTimes ==
    [][call'.op \in {"upsert_instances", "batch_sync_data"} =>
        \A k \in 1..Len(call'.batch) :
            LET r == call'.batch[k]
                i == r.InstanceId
            IN  (i \in DOMAIN db /\ only_record(call'.batch, k)
                    /\ r.ExpiredTime = NULL /\ r.CreatedTime = NULL) =>
                    /\ db[i].expired_time # NULL => db'[i].expired_time = db[i].expired_time
                    /\ db[i].created_time # NULL => db'[i].created_time = db[i].created_time
                    /\ db'[i].status = r.InstanceState
                    /\ db'[i].region = r.Region
                    /\ r.PublicIpAddresses # <<>> => db'[i].public_ip = r.PublicIpAddresses[1]
                    /\ r.PrivateIpAddresses # <<>> => db'[i].private_ip = r.PrivateIpAddresses[1]]_vars

\* A record without times was upserted as STOPPED in ap-shanghai, and the row
\* still carries an expiry and a creation time.
C12_Witness ==
    /\ call.op = "upsert_instances"
    /\ Len(call.batch) = 1
    /\ call.batch[1].ExpiredTime = NULL
    /\ call.batch[1].CreatedTime = NULL
    /\ call.batch[1].InstanceState = "STOPPED"
    /\ call.batch[1].Region = "ap-shanghai"
    /\ "ins-a" \in DOMAIN db
    /\ db["ins-a"].expired_time # NULL
    /\ db["ins-a"].created_time # NULL
    /\ db["ins-a"].status = "STOPPED"
    /\ db["ins-a"].region = "ap-shanghai"

\* C13: a record that carries no address at all, merged for a stored
\* instance, leaves the stored public and private addresses as they were.
C13_MergeKeepsAddresses ==
    [][call'.op = "upsert_instances" =>
        \A k \in 1..Len(call'.batch) :
            LET r == call'.batch[k]
                i == r.InstanceId
            IN  (i \in DOMAIN db /\ only_record(call'.batch, k)
                    /\ r.PublicIpAddresses = <<>> /\ r.PrivateIpAddresses = <<>>) =>
                    /\ db'[i].public_ip = db[i].public_ip
                    /\ db'[i].private_ip = db[i].private_ip]_vars

\* C14: upsertInstances(R) applied again to the table it produced changes
\* nothing: one row per identifier of R, each with the same column values.
C14_UpsertIdempotent ==
    call.op = "upsert_instances" =>
        /\ BatchIds(call.batch) \subseteq DOMAIN db
        /\ upsert_instances(db, call.batch) = db

\* A batch with two records for the same instance, the first with times and
\* the second without, was upserted over a row that had other times.
C14_Witness ==
    /\ call.op = "upsert_instances"
    /\ Len(call.batch) = 2
    /\ call.batch[1].InstanceId = call.batch[2].InstanceId
    /\ call.batch[1].ExpiredTime # NULL
    /\ call.batch[2].ExpiredTime = NULL
    /\ call.batch[1].CreatedTime # NULL
    /\ db[call.batch[1].InstanceId].created_time # call.batch[1].CreatedTime

\* --------------------------------------------- any callers of the store

\* Calls a thread may make in the lock-level specification.
ClientCalls ==
    {Call("upsert_instances", <<Record("ins-a", "RUNNING", "ap-beijing", <<>>, <<>>, NULL, NULL)>>,
          None, NULL, NULL),
     Call("upsert_instances", <<Record("ins-b", "", "ap-beijing", <<>>, <<>>, NULL, NULL)>>,
          None, NULL, NULL),
     Call("mark_all_instances_as_deleted", <<>>, None, NULL, NULL),
     Call("update_instance_status", <<>>, None, "ins-a", "STARTING"),
     Call("soft_delete_missing", <<>>, None, NULL, NULL),
     Call("soft_delete_missing", <<>>, Some({}), NULL, NULL),
     Call("soft_delete_missing", <<>>, Some({"ins-b"}), NULL, NULL),
     Call("list_instances", <<>>, None, NULL, NULL),
     Call("get_instances", <<>>, Some({}), NULL, NULL),
     Call("get_instances", <<>>, Some(Ids), NULL, NULL),
     Call("get_db", <<>>, None, NULL, NULL)}

\* Thread t, outside any store call, makes one.
Client(t) ==
    /\ \E c \in ClientCalls : invoke(t, c)
    /\ UNCHANGED callerVars

NextLock ==
    \E t \in Threads :
        \/ Client(t)
        \/ soft_delete_return(t)
        \/ write_acquire(t)
        \/ write_commit(t)
        \/ read_try(t)
        \/ read_select(t)
        \/ get_db(t)

SpecLock == InitStore /\ [][NextLock]_vars

\* C5: listInstances() and getInstances(ids) called while another thread
\* holds the store lock return the empty result at once: the call is never
\* made to wait, and its return leaves the lock and the rows as they were.
C5_ContendedReadReturnsEmpty ==
    /\ [](\A t \in Threads :
            (pc[t] = "called" /\ cur[t].op \in ReadOps) => ENABLED read_try(t))
    /\ [][\A t \in Threads :
            (pc[t] = "called" /\ cur[t].op \in ReadOps /\ lock # Free /\ pc'[t] # pc[t]) =>
                /\ pc'[t] = "idle"
                /\ ret'[t] = <<>>
                /\ lock' = lock
                /\ db' = db]_vars

\* A list_instances() that found the lock held has returned nothing although
\* the table has rows to list, and the other thread still holds the lock.
C5_Witness ==
    \E t \in Threads :
        /\ pc[t] = "idle"
        /\ cur[t].op = "list_instances"
        /\ skipped[t]
        /\ ret[t] = <<>>
        /\ list_select(db) # {}
        /\ lock \notin {Free, t}

\* C9: softDeleteMissing([]) and softDeleteMissing(None) change nothing and
\* return at once: no row changes, and the lock is neither taken nor awaited.
C9_SoftDeleteEmptyNoOp ==
    /\ [](\A t \in Threads :
            (cur[t].op = "soft_delete_missing"
                /\ (cur[t].ids = None \/ cur[t].ids = Some({}))) =>
                    /\ lock # t
                    /\ pc[t] = "called" => ENABLED soft_delete_return(t))
    /\ [][\A t \in Threads :
            (pc[t] = "called" /\ cur[t].op = "soft_delete_missing"
                /\ (cur[t].ids = None \/ cur[t].ids = Some({}))
                /\ pc'[t] # pc[t]) =>
                    /\ pc'[t] = "idle"
                    /\ db' = db
                    /\ lock' = lock]_vars

\* softDeleteMissing([]) has returned while live rows are in the table and
\* another thread holds the lock.
C9_Witness ==
    \E t \in Threads :
        /\ pc[t] = "idle"
        /\ cur[t].op = "soft_delete_missing"
        /\ cur[t].ids = Some({})
        /\ list_select(db) # {}
        /\ lock \notin {Free, t}

\* ------------------------------------ writes, statement by statement

\* Calls of the mutating methods and of the two reads: those of the UI
\* thread (refresh, commands, settings, display) and those of a worker
\* (the preload of regions, zones and images, a bulk synchronisation).
TxnCalls(t) ==
    IF t = "ui"
    THEN <<Call("upsert_instances",
                <<Record("ins-a", "RUNNING", "ap-beijing", <<>>, <<"10.0.0.5">>, NULL, NULL),
                  Record("ins-b", "STOPPED", "ap-beijing", <<>>, <<>>, NULL, NULL)>>,
                None, NULL, NULL),
           Call("mark_all_instances_as_deleted", <<>>, None, NULL, NULL),
           Call("update_instance_status", <<>>, None, "ins-a", "STOPPING"),
           Call("soft_delete_missing", <<>>, Some({"ins-b"}), NULL, NULL),
           CacheCall("set_config_struct", [config |-> "secret_id, secret_key"]),
           Call("list_instances", <<>>, None, NULL, NULL),
           Call("get_instances", <<>>, Some(Ids), NULL, NULL)>>
    ELSE <<CacheCall("replace_regions", [regions |-> <<"ap-beijing", "ap-shanghai">>]),
           CacheCall("replace_zones", [region |-> "ap-beijing",
                                       zones |-> <<"ap-beijing-1", "ap-beijing-2">>]),
           CacheCall("replace_zones", [region |-> "", zones |-> <<>>]),
           CacheCall("replace_images", [region |-> "ap-beijing", image_type |-> "PUBLIC_IMAGE",
                                        images |-> <<"img-1">>]),
           CacheCall("batch_sync_data",
                     [regions |-> <<>>,
                      zones_map |-> <<[region |-> "ap-beijing", zones |-> <<"ap-beijing-1">>]>>,
                      images_map |-> <<>>,
                      instances |-> Some(<<Record("ins-b", "RUNNING", "ap-beijing",
                                                  <<>>, <<>>, NULL, NULL)>>)])>>

\* Thread t, outside any store call, makes one.
TxnClient(t) ==
    /\ \E k \in 1..Len(TxnCalls(t)) : invoke(t, TxnCalls(t)[k])
    /\ UNCHANGED callerVars

NextTxn ==
    \E t \in Threads :
        \/ TxnClient(t)
        \/ replace_return(t)
        \/ write_acquire(t)
        \/ write_execute(t)
        \/ write_raise(t)
        \/ write_commit(t)
        \/ read_try(t)
        \/ read_select(t)

\* The singleton exists, the tables are empty, no thread is in a call.
InitTxn ==
    /\ db = <<>>
    /\ cache = NoCache
    /\ lock = Free
    /\ db_singleton = TRUE
    /\ InitThreads
    /\ call = NoCall
    /\ step = "idle"
    /\ InitApp

SpecTxn == InitTxn /\ [][NextTxn]_vars

\* C15: a multi-row write is one transaction. While it runs, the tables of
\* the file stay as they were when it began, so no reader sees part of it;
\* when it fails part-way, the tables are those of before the call and the
\* lock is free again.
C15_WriteAtomic ==
    /\ [](\A t \in Threads :
            tx[t].open =>
                /\ db = tx[t].before.db
                /\ cache = tx[t].before.cache
                /\ \A u \in Threads : pc[u] # "select")
    /\ [][\A t \in Threads :
            (tx[t].open /\ tx'[t].raised) =>
                /\ db' = tx[t].before.db
                /\ cache' = tx[t].before.cache
                /\ lock' = Free
                /\ pc'[t] = "idle"]_vars

\* batch_sync_data failed after statements on the zones and the instances
\* tables: its caller has the exception, the lock is free, and the rows and
\* zones stored before are there.
C15_Witness ==
    \E t \in Threads :
        /\ cur[t].op = "batch_sync_data"
        /\ pc[t] = "idle"
        /\ tx[t].raised
        /\ tx[t].done = Len(statements(cur[t]))
        /\ lock = Free
        /\ "ins-b" \in DOMAIN db /\ db["ins-b"].status = "STOPPED"
        /\ <<"ap-beijing", "ap-beijing-2">> \in cache.zones

\* C16: a mutating method holds the one lock from before its first statement
\* to its commit or rollback: a thread inside a transaction is the lock's
\* holder, and no other thread is inside a transaction or a read's SELECT.
C16_SingleWriter ==
    \A t \in Threads :
        (pc[t] = "commit" \/ tx[t].open) =>
            /\ lock = t
            /\ cur[t].op \in WriteOps
            /\ \A u \in Threads \ {t} : pc[u] \notin {"commit", "select"} /\ ~tx[u].open

\* The worker is two statements into replace_regions while the UI thread is
\* held at the `with _lock` of set_config_struct.
C16_Witness ==
    \E t, u \in Threads :
        /\ pc[t] = "commit"
        /\ cur[t].op = "replace_regions"
        /\ tx[t].done > 1
        /\ cur[u].op = "set_config_struct"
        /\ Blocked(u)

\* ------------------------------------------------------ the application

\* The order in which the cloud API lists instances.
IdOrder == <<"ins-a", "ins-b">>

\* DescribeInstances through the client of region rg: the instances of that
\* region, all of them or (instance_ids non-empty) those asked for.
describe_instances(rem, rg, instance_ids) ==
    LET hit(i) == /\ rem[i].state \notin {"NONE", "RELEASED"}
                  /\ rem[i].region = rg
                  /\ IF is_empty(instance_ids) THEN TRUE ELSE i \in instance_ids[1]
    IN  SelectSeq(IdOrder, hit)

\* The dicts CVMManager.get_instances builds from the API's answer.
instance_records(rem, found) ==
    [k \in 1..Len(found) |->
        Record(found[k], rem[found[k]].state, rem[found[k]].region,
               <<>>, rem[found[k]].ips, NULL, NULL)]

\* The IpAddress key of such a dict: the first public address, else the first
\* private one, else the empty string.
ip_address(inst) ==
    IF inst.PublicIpAddresses # <<>> THEN Head(inst.PublicIpAddresses)
    ELSE IF inst.PrivateIpAddresses # <<>> THEN Head(inst.PrivateIpAddresses)
    ELSE ""

\* The UI thread stands at position h of a handler, outside any store call.
ui_at(h) == hpc = h /\ pc["ui"] = "idle"

\* The UI thread moves to position h without calling the store.
ui_goto(h) ==
    /\ hpc' = h
    /\ UNCHANGED <<storeVars, threadVars>>

\* --- CVMManager.get_instances(region, instance_ids), run by the UI thread

\* The call: instance_ids is None or a list; `after` is where the caller goes on.
enter_get_instances(instance_ids, after) ==
    /\ gi' = [ids |-> instance_ids, after |-> after, raised |-> FALSE, ret |-> <<>>]
    /\ ui_goto("gi_fetch")

\* DescribeInstances raises: get_instances re-raises, the store is not touched.
GiRaise ==
    /\ ui_at("gi_fetch")
    /\ gi' = [gi EXCEPT !.raised = TRUE]
    /\ ui_goto(gi.after)
    /\ UNCHANGED <<opVars, call, step, remote, region, rf, cmd, wk, view, watch>>

\* DescribeInstances answers: db.upsert_instances(instances).
GiFetch ==
    /\ ui_at("gi_fetch")
    /\ LET instances == instance_records(remote, describe_instances(remote, region, gi.ids))
       IN  /\ gi' = [gi EXCEPT !.ret = instances]
           /\ invoke("ui", Call("upsert_instances", instances, None, NULL, NULL))
    /\ hpc' = "gi_upsert"
    /\ UNCHANGED <<opVars, call, step, remote, region, rf, cmd, wk, view, watch>>

\* get_instances with db.soft_delete_missing(valid_ids) outside its
\* `if not instance_ids`.
GiSoftDeleteAlways ==
    /\ ui_at("gi_upsert")
    /\ invoke("ui", Call("soft_delete_missing", <<>>, Some(BatchIds(gi.ret)), NULL, NULL))
    /\ hpc' = "gi_soft"
    /\ UNCHANGED <<opVars, call, step, remote, region, gi, rf, cmd, wk, view, watch>>

\* `if not instance_ids: db.soft_delete_missing(valid_ids)`, else return.
GiSoftDelete ==
    /\ ui_at("gi_upsert")
    /\ IF is_empty(gi.ids)
       THEN /\ invoke("ui", Call("soft_delete_missing", <<>>, Some(BatchIds(gi.ret)), NULL, NULL))
            /\ hpc' = "gi_soft"
       ELSE ui_goto(gi.after)
    /\ UNCHANGED <<opVars, call, step, remote, region, gi, rf, cmd, wk, view, watch>>

\* get_instances returns the instances to its caller.
GiReturn ==
    /\ ui_at("gi_soft")
    /\ ui_goto(gi.after)
    /\ UNCHANGED <<opVars, call, step, remote, region, gi, rf, cmd, wk, view, watch>>

\* --- MainWindow.refresh_instances

\* refresh_instances(skip_sync=True), or the display half of a full refresh:
\* `db = get_db()`; `after` is where the calling handler goes on.
enter_display(after) ==
    /\ rf' = [sync_only |-> FALSE, after |-> after, before |-> <<>>]
    /\ invoke("ui", Call("get_db", <<>>, None, NULL, NULL))
    /\ hpc' = "display_db"

\* refresh_instances(sync_only) with skip_sync False, from the one-minute
\* timer (sync_only) or the refresh button: get_db(), then
\* db.mark_all_instances_as_deleted().
RefreshMark ==
    /\ ui_at("idle")
    /\ \E sync_only \in BOOLEAN :
        rf' = [sync_only |-> sync_only, after |-> "idle", before |-> db]
    /\ invoke("ui", Call("mark_all_instances_as_deleted", <<>>, None, NULL, NULL))
    /\ hpc' = "refresh_marked"
    /\ UNCHANGED <<opVars, call, step, remote, region, gi, cmd, wk, view, watch>>

\* self.cvm_manager.get_instances(None), inside the try.
RefreshFetch ==
    /\ ui_at("refresh_marked")
    /\ enter_get_instances(None, "refresh_synced")
    /\ UNCHANGED <<opVars, call, step, remote, region, rf, cmd, wk, view, watch>>

\* After the try/except: `if sync_only: return`, else the display.
RefreshSynced ==
    /\ ui_at("refresh_synced")
    /\ IF rf.sync_only
       THEN /\ rf' = NoRf
            /\ ui_goto(rf.after)
       ELSE enter_display(rf.after)
    /\ gi' = NoGi
    /\ UNCHANGED <<opVars, call, step, remote, region, cmd, wk, view, watch>>

\* refresh_instances(skip_sync=True) from the four-second timer.
DisplayPoll ==
    /\ ui_at("idle")
    /\ enter_display("idle")
    /\ UNCHANGED <<opVars, call, step, remote, region, gi, cmd, wk, view, watch>>

\* raw_instances = db.list_instances()
DisplayList ==
    /\ ui_at("display_db")
    /\ invoke("ui", Call("list_instances", <<>>, None, NULL, NULL))
    /\ hpc' = "display_list"
    /\ UNCHANGED <<opVars, call, step, remote, region, gi, rf, cmd, wk, view, watch>>

\* The status column of the rows handed to instance_list.update_instances.
shown(rows) == [i \in DOMAIN rows |-> or_else(rows[i].status, "")]

\* self.instance_list.update_instances(instances)
DisplayShow ==
    /\ ui_at("display_list")
    /\ view' = shown(ret["ui"])
    /\ rf' = NoRf
    /\ ui_goto(rf.after)
    /\ UNCHANGED <<opVars, call, step, remote, region, gi, cmd, wk, watch>>

\* --- create_instances: CVMManager.create on a worker thread

\* create_instances hands create(region = r) to a worker.
CreateSpawn ==
    /\ ui_at("idle")
    /\ wk.pc = "idle"
    /\ \E r \in Regions, i \in Ids :
        /\ remote[i].state = "NONE"
        /\ wk' = [pc |-> "run", task |-> "create", ids |-> {i}, region |-> r]
    /\ UNCHANGED <<storeVars, threadVars, opVars, call, step, remote, region, hpc, gi, rf, cmd, view, watch>>

\* create: `if region != self.region: self._init_client(region)`, then
\* RunInstances answers and the new instance is upserted as PENDING.
CreateRun ==
    /\ wk.pc = "run"
    /\ wk.task = "create"
    /\ region' = wk.region
    /\ \E i \in wk.ids :
        /\ remote' = [remote EXCEPT ![i] = [state |-> "PENDING", region |-> wk.region,
                                            ips |-> <<>>]]
        /\ invoke("w1", Call("upsert_instances",
                             <<Record(i, "PENDING", wk.region, <<>>, <<>>, NULL, NULL)>>,
                             None, NULL, NULL))
    /\ wk' = [wk EXCEPT !.pc = "upsert"]
    /\ UNCHANGED <<opVars, call, step, hpc, gi, rf, cmd, view, watch>>

\* create: the client is switched, then RunInstances raises; on_error only
\* shows a message.
CreateFail ==
    /\ wk.pc = "run"
    /\ wk.task = "create"
    /\ region' = wk.region
    /\ wk' = NoWk
    /\ UNCHANGED <<storeVars, threadVars, opVars, call, step, remote, hpc, gi, rf, cmd, view, watch>>

\* create returns once the rows are written: the result goes to the UI thread.
CreateDone ==
    /\ wk.pc = "upsert"
    /\ pc["w1"] = "idle"
    /\ wk' = [wk EXCEPT !.pc = "ok"]
    /\ UNCHANGED <<storeVars, threadVars, opVars, call, step, remote, region, hpc, gi, rf, cmd, view, watch>>

\* on_success of create_instances going straight to
\* refresh_instances(skip_sync=True), the watch set untouched.
CreateOnSuccessNoWatch ==
    /\ ui_at("idle")
    /\ wk.pc = "ok"
    /\ wk.task = "create"
    /\ wk' = NoWk
    /\ enter_display("idle")
    /\ UNCHANGED <<opVars, call, step, remote, region, gi, cmd, view, watch>>

\* on_success of create_instances: the new ids join pending_instance_ids and
\* the poll timer is started, then refresh_instances(skip_sync=True).
CreateOnSuccess ==
    /\ ui_at("idle")
    /\ wk.pc = "ok"
    /\ wk.task = "create"
    /\ watch' = [watch EXCEPT !.pending = @ \cup wk.ids,
                              !.active = @ \/ (watch.pending \cup wk.ids # {})]
    /\ wk' = NoWk
    /\ enter_display("idle")
    /\ UNCHANGED <<opVars, call, step, remote, region, gi, cmd, view>>

\* --- _poll_pending_instances, every two seconds

watched == watch.pending \cup watch.starting \cup watch.stopping

\* A tick of pending_poll_timer: with the three sets empty the timer is
\* stopped; else get_instances(None, all_ids) for the ids under watch.
PollFetch ==
    /\ ui_at("idle")
    /\ watch.active
    /\ IF watched = {}
       THEN /\ watch' = [watch EXCEPT !.active = FALSE]
            /\ ui_goto("idle")
            /\ UNCHANGED gi
       ELSE /\ enter_get_instances(Some(watched), "poll_fetched")
            /\ UNCHANGED watch
    /\ UNCHANGED <<opVars, call, step, remote, region, rf, cmd, wk, view>>

\* The ids of the listing whose state is `state`.
in_state(instances, state) ==
    {instances[k].InstanceId : k \in {j \in 1..Len(instances) : instances[j].InstanceState = state}}

\* The ids of the listing that carry an address.
with_ip(instances) ==
    {instances[k].InstanceId : k \in {j \in 1..Len(instances) : ip_address(instances[j]) # ""}}

\* The watch sets drop the ids that reached their state, then
\* refresh_instances(skip_sync=True); an exception only shows a message.
PollFetched ==
    /\ ui_at("poll_fetched")
    /\ IF gi.raised
       THEN /\ ui_goto("idle")
            /\ UNCHANGED <<watch, rf>>
       ELSE /\ watch' = [watch EXCEPT
                            !.pending = @ \ (in_state(gi.ret, "RUNNING") \cup with_ip(gi.ret)),
                            !.starting = @ \ in_state(gi.ret, "RUNNING"),
                            !.stopping = @ \ in_state(gi.ret, "STOPPED")]
            /\ enter_display("poll_done")
    /\ gi' = NoGi
    /\ UNCHANGED <<opVars, call, step, remote, region, cmd, wk, view>>

\* The end of the tick, with the timer left running whatever the sets hold.
PollDoneKeepsTimer ==
    /\ ui_at("poll_done")
    /\ ui_goto("idle")
    /\ UNCHANGED <<opVars, call, step, remote, region, gi, rf, cmd, wk, view, watch>>

\* The end of the tick: with the three sets empty the timer is stopped.
PollDone ==
    /\ ui_at("poll_done")
    /\ watch' = IF watched = {} THEN [watch EXCEPT !.active = FALSE] ELSE watch
    /\ ui_goto("idle")
    /\ UNCHANGED <<opVars, call, step, remote, region, gi, rf, cmd, wk, view>>

\* --- the cloud

\* An instance finishes the transition it is in.
settled(state) ==
    CASE state = "PENDING" -> "RUNNING"
      [] state = "STARTING" -> "RUNNING"
      [] state = "STOPPING" -> "STOPPED"
      [] OTHER -> state

CloudSettle ==
    /\ \E i \in Ids :
        /\ settled(remote[i].state) # remote[i].state
        /\ remote' = [remote EXCEPT ![i].state = settled(remote[i].state)]
    /\ UNCHANGED <<storeVars, threadVars, opVars, call, step, region, hpc, gi, rf, cmd, wk, view, watch>>

\* A new instance is given its private address.
CloudAssignIp ==
    /\ \E i \in Ids :
        /\ remote[i].state \notin {"NONE", "RELEASED"}
        /\ remote[i].ips = <<>>
        /\ remote' = [remote EXCEPT ![i].ips = <<"10.0.0.5">>]
    /\ UNCHANGED <<storeVars, threadVars, opVars, call, step, region, hpc, gi, rf, cmd, wk, view, watch>>

\* --- resynchronisation, display, creation and watch together

\* The application after start-up: the singleton exists, the table is empty.
InitResync ==
    /\ db = <<>>
    /\ lock = Free
    /\ db_singleton = TRUE
    /\ cache = NoCache
    /\ InitThreads
    /\ call = NoCall
    /\ step = "idle"
    /\ InitApp

NextResync ==
    \/ RefreshMark
    \/ RefreshFetch
    \/ RefreshSynced
    \/ GiRaise
    \/ GiFetch
    \/ GiSoftDelete
    \/ GiReturn
    \/ DisplayPoll
    \/ DisplayList
    \/ DisplayShow
    \/ CreateSpawn
    \/ CreateRun
    \/ CreateFail
    \/ CreateDone
    \/ CreateOnSuccess
    \/ PollFetch
    \/ PollFetched
    \/ PollDone
    \/ CloudSettle
    \/ \E t \in Threads :
        \/ soft_delete_return(t)
        \/ write_acquire(t)
        \/ write_commit(t)
        \/ read_try(t)
        \/ read_select(t)
        \/ get_db(t)

SpecResync == InitResync /\ [][NextResync]_vars

\* C2: when the remote listing fails during a full resync, the store still
\* serves the last good snapshot: every instance listed before the resync
\* began is listed after it, none left soft-deleted by the failed fetch.
C2_FailedFetchKeepsSnapshot ==
    (hpc = "refresh_synced" /\ gi.raised) =>
        \A i \in list_select(rf.before) : i \in list_select(db)

\* C6: the UI read path, get_db() and then list_instances(), never waits
\* for a writer: the UI thread is never held at get_db() by the lock.
C6_UiReadPathNeverWaits ==
    ~(hpc = "display_db" /\ Blocked("ui"))

\* C7: a listing with an explicit id filter only upserts the records it
\* returned: the UI thread's one store call in it is that upsert, it leaves
\* the status of every other row as it was, and neither soft_delete_missing
\* nor mark_all_instances_as_deleted runs.
C7_PartialListingOnlyUpserts ==
    /\ [](~is_empty(gi.ids) =>
            /\ hpc # "gi_soft"
            /\ hpc = "gi_upsert" =>
                  /\ cur["ui"].op = "upsert_instances"
                  /\ cur["ui"].batch = gi.ret
                  /\ BatchIds(gi.ret) \subseteq gi.ids[1])
    /\ [][(~is_empty(gi.ids) /\ hpc = "gi_upsert" /\ pc["ui"] = "commit" /\ pc'["ui"] = "idle") =>
            \A i \in DOMAIN db \ BatchIds(gi.ret) :
                i \in DOMAIN db' /\ db'[i].status = db[i].status]_vars

\* The watch poll has listed the watched instance and returned, and the row
\* of an instance outside its filter is still listed.
C7_Witness ==
    /\ hpc = "poll_fetched"
    /\ ~is_empty(gi.ids)
    /\ ~gi.raised
    /\ gi.ret # <<>>
    /\ list_select(db) \ gi.ids[1] # {}

\* C8: a full-listing reconciliation of one region never soft-deletes an
\* instance that still exists remotely, in that region or in another one:
\* a row listed before the resync, whose instance exists, is listed after it.
C8_ReconcileKeepsLiveInstances ==
    (hpc = "refresh_synced" /\ ~gi.raised) =>
        \A i \in list_select(rf.before) :
            remote[i].state # "NONE" => db[i].status # Sentinel

\* --- batch_start and batch_stop

Kinds == {"start", "stop"}

\* The status the command writes before calling the API.
transient(kind) == IF kind = "start" THEN "STARTING" ELSE "STOPPING"

\* The stored status that makes the command skip an instance.
skipped_status(kind) == IF kind = "start" THEN "RUNNING" ELSE "STOPPED"

\* The state the cloud requires of an instance to accept the command.
source_state(kind) == IF kind = "start" THEN "STOPPED" ELSE "RUNNING"

\* The next id of a `for iid in ...` loop over the ids still to do.
next_id(todo) == IdOrder[CHOOSE k \in 1..Len(IdOrder) :
                            /\ IdOrder[k] \in todo
                            /\ \A j \in 1..(k - 1) : IdOrder[j] \notin todo]

\* The InstanceState the listing gives for id i.
state_of(instances, i) ==
    instances[CHOOSE k \in 1..Len(instances) : instances[k].InstanceId = i].InstanceState

\* The button: ids are selected in the list, `db = get_db()`.
CmdBegin ==
    /\ ui_at("idle")
    /\ cmd.kind = "none"
    /\ \E kind \in Kinds, selected \in SUBSET DOMAIN view :
        /\ selected # {}
        /\ cmd' = [NoCmd EXCEPT !.kind = kind, !.phase = "filter", !.selected = selected]
    /\ invoke("ui", Call("get_db", <<>>, None, NULL, NULL))
    /\ hpc' = "cmd_db"
    /\ UNCHANGED <<opVars, call, step, remote, region, gi, rf, wk, view, watch>>

\* original_instances = db.get_instances(selected_ids)
CmdFilter ==
    /\ ui_at("cmd_db")
    /\ invoke("ui", Call("get_instances", <<>>, Some(cmd.selected), NULL, NULL))
    /\ hpc' = "cmd_filter"
    /\ UNCHANGED <<opVars, call, step, remote, region, gi, rf, cmd, wk, view, watch>>

\* valid_ids are the rows read whose status is not the skipped one; with
\* none the handler returns, else the confirmation dialog opens.
CmdFiltered ==
    /\ ui_at("cmd_filter")
    /\ LET valid_ids == {i \in DOMAIN ret["ui"] : ret["ui"][i].status # skipped_status(cmd.kind)}
       IN  cmd' = IF valid_ids = {} THEN NoCmd
                  ELSE [cmd EXCEPT !.valid_ids = valid_ids, !.phase = "confirm"]
    /\ ui_goto("idle")
    /\ UNCHANGED <<opVars, call, step, remote, region, gi, rf, wk, view, watch>>

\* The dialog is answered No.
CmdCancel ==
    /\ ui_at("idle")
    /\ cmd.phase = "confirm"
    /\ cmd' = NoCmd
    /\ ui_goto("idle")
    /\ UNCHANGED <<opVars, call, step, remote, region, gi, rf, wk, view, watch>>

\* The dialog is answered Yes, execute_start: db.get_instances(valid_ids).
CmdExecute ==
    /\ ui_at("idle")
    /\ cmd.phase = "confirm"
    /\ cmd' = [cmd EXCEPT !.phase = "execute"]
    /\ invoke("ui", Call("get_instances", <<>>, Some(cmd.valid_ids), NULL, NULL))
    /\ hpc' = "cmd_capture"
    /\ UNCHANGED <<opVars, call, step, remote, region, gi, rf, wk, view, watch>>

\* original_states[instance_id] = status, for the rows the read returned.
CmdCaptured ==
    /\ ui_at("cmd_capture")
    /\ cmd' = [cmd EXCEPT !.original_states = [i \in DOMAIN ret["ui"] |-> ret["ui"][i].status],
                          !.before = [i \in cmd.valid_ids \cap DOMAIN db |-> db[i].status],
                          !.todo = cmd.valid_ids]
    /\ ui_goto("cmd_mark")
    /\ UNCHANGED <<opVars, call, step, remote, region, gi, rf, wk, view, watch>>

\* `for iid in valid_ids: db.update_instance_status(iid, "STARTING")`, then
\* refresh_instances(skip_sync=True).
CmdMark ==
    /\ ui_at("cmd_mark")
    /\ IF cmd.todo # {}
       THEN /\ invoke("ui", Call("update_instance_status", <<>>, None,
                                 next_id(cmd.todo), transient(cmd.kind)))
            /\ cmd' = [cmd EXCEPT !.todo = @ \ {next_id(cmd.todo)}]
            /\ UNCHANGED <<hpc, rf>>
       ELSE /\ enter_display("cmd_spawn")
            /\ UNCHANGED cmd
    /\ UNCHANGED <<opVars, call, step, remote, region, gi, wk, view, watch>>

\* run_in_background(start_task, on_success, on_error)
CmdSpawn ==
    /\ ui_at("cmd_spawn")
    /\ cmd' = [cmd EXCEPT !.phase = "inflight", !.task = "run"]
    /\ ui_goto("idle")
    /\ UNCHANGED <<opVars, call, step, remote, region, gi, rf, wk, view, watch>>

\* CVMManager.start/stop(valid_ids, skip_db_update=True): the API accepts.
CmdRunOk ==
    /\ cmd.task = "run"
    /\ \A i \in cmd.valid_ids :
        remote[i].state = source_state(cmd.kind) /\ remote[i].region = region
    /\ remote' = [i \in Ids |-> IF i \in cmd.valid_ids
                                THEN [remote[i] EXCEPT !.state = transient(cmd.kind)]
                                ELSE remote[i]]
    /\ cmd' = [cmd EXCEPT !.task = "ok"]
    /\ UNCHANGED <<storeVars, threadVars, opVars, call, step, region, hpc, gi, rf, wk, view, watch>>

\* CVMManager.start/stop: the API call raises.
CmdRunFail ==
    /\ cmd.task = "run"
    /\ cmd' = [cmd EXCEPT !.task = "failed"]
    /\ UNCHANGED <<storeVars, threadVars, opVars, call, step, remote, region, hpc, gi, rf, wk, view, watch>>

\* on_success: the ids join the watch set, then
\* get_instances(self.cvm_manager.region, instance_ids=valid_ids).
CmdOnSuccess ==
    /\ ui_at("idle")
    /\ cmd.task = "ok"
    /\ watch' = IF cmd.kind = "start"
                THEN [watch EXCEPT !.starting = @ \cup cmd.valid_ids,
                                   !.active = @ \/ (watch.starting \cup cmd.valid_ids # {})]
                ELSE [watch EXCEPT !.stopping = @ \cup cmd.valid_ids,
                                   !.active = @ \/ (watch.stopping \cup cmd.valid_ids # {})]
    /\ cmd' = [cmd EXCEPT !.phase = "success", !.task = "none"]
    /\ enter_get_instances(Some(cmd.valid_ids), "cmd_requeried")
    /\ UNCHANGED <<opVars, call, step, remote, region, rf, wk, view>>

\* on_success: `if instances:` the loop over them starts; an exception is logged.
CmdRequeried ==
    /\ ui_at("cmd_requeried")
    /\ cmd' = [cmd EXCEPT !.todo = IF gi.raised THEN {} ELSE BatchIds(gi.ret)]
    /\ ui_goto("cmd_update")
    /\ UNCHANGED <<opVars, call, step, remote, region, gi, rf, wk, view, watch>>

\* on_success: db.update_instance_status(instance_id, api_status) for each
\* instance, then refresh_instances(skip_sync=True).
CmdUpdate ==
    /\ ui_at("cmd_update")
    /\ IF cmd.todo # {}
       THEN /\ invoke("ui", Call("update_instance_status", <<>>, None,
                                 next_id(cmd.todo), state_of(gi.ret, next_id(cmd.todo))))
            /\ cmd' = [cmd EXCEPT !.todo = @ \ {next_id(cmd.todo)}]
            /\ UNCHANGED <<hpc, rf, gi>>
       ELSE /\ enter_display("cmd_done")
            /\ gi' = NoGi
            /\ UNCHANGED cmd
    /\ UNCHANGED <<opVars, call, step, remote, region, wk, view, watch>>

\* on_error: the rollback loop over valid_ids starts.
CmdOnError ==
    /\ ui_at("idle")
    /\ cmd.task = "failed"
    /\ cmd' = [cmd EXCEPT !.phase = "error", !.task = "none", !.todo = cmd.valid_ids]
    /\ ui_goto("cmd_rollback")
    /\ UNCHANGED <<opVars, call, step, remote, region, gi, rf, wk, view, watch>>

\* original_states.get(iid)
original_status(i) ==
    IF i \in DOMAIN cmd.original_states THEN cmd.original_states[i] ELSE NULL

\* on_error, one id: `if original_status:` write it back, else ask the API
\* for this id; after the loop refresh_instances(skip_sync=True).
CmdRollback ==
    /\ ui_at("cmd_rollback")
    /\ IF cmd.todo = {}
       THEN /\ enter_display("cmd_done")
            /\ UNCHANGED <<cmd, gi>>
       ELSE IF or_else(original_status(next_id(cmd.todo)), NULL) # NULL
       THEN /\ invoke("ui", Call("update_instance_status", <<>>, None,
                                 next_id(cmd.todo), original_status(next_id(cmd.todo))))
            /\ cmd' = [cmd EXCEPT !.todo = @ \ {next_id(cmd.todo)}]
            /\ UNCHANGED <<hpc, rf, gi>>
       ELSE /\ enter_get_instances(Some({next_id(cmd.todo)}), "cmd_rollback_fetched")
            /\ UNCHANGED <<cmd, rf>>
    /\ UNCHANGED <<opVars, call, step, remote, region, wk, view, watch>>

\* on_error, one id without a saved status: the API's state is written when
\* the lookup returned the instance; a failed lookup is passed over.
CmdRollbackFetched ==
    /\ ui_at("cmd_rollback_fetched")
    /\ IF gi.raised
       THEN ui_goto("cmd_rollback")
       ELSE IF gi.ret = <<>>
       THEN ui_goto("cmd_rollback")
       ELSE /\ invoke("ui", Call("update_instance_status", <<>>, None,
                                 next_id(cmd.todo), gi.ret[1].InstanceState))
            /\ hpc' = "cmd_rollback"
    /\ cmd' = [cmd EXCEPT !.todo = @ \ {next_id(cmd.todo)}]
    /\ gi' = NoGi
    /\ UNCHANGED <<opVars, call, step, remote, region, rf, wk, view, watch>>

\* The callback returns.
CmdDone ==
    /\ ui_at("cmd_done")
    /\ cmd' = NoCmd
    /\ ui_goto("idle")
    /\ UNCHANGED <<opVars, call, step, remote, region, gi, rf, wk, view, watch>>

\* --- commands on an account that holds one instance

\* The application after start-up on an account with one instance, running
\* or stopped, in the default region: the preload has stored its row and the
\* list shows it.
InitCmd ==
    /\ \E state \in {"RUNNING", "STOPPED"} :
        remote = [NoRemote EXCEPT !["ins-a"] = [state |-> state, region |-> "ap-beijing",
                                                ips |-> <<"10.0.0.4">>]]
    /\ region = "ap-beijing"
    /\ db = upsert_instances(<<>>, instance_records(remote,
                                     describe_instances(remote, "ap-beijing", None)))
    /\ view = shown([i \in list_select(db) |-> db[i]])
    /\ lock = Free
    /\ db_singleton = TRUE
    /\ cache = NoCache
    /\ InitThreads
    /\ call = NoCall
    /\ step = "idle"
    /\ hpc = "idle"
    /\ gi = NoGi
    /\ rf = NoRf
    /\ cmd = NoCmd
    /\ wk = NoWk
    /\ watch = NoWatch
    /\ InitOps

\* The handlers of a command, its worker task and the store calls they make.
CmdStep ==
    \/ CmdBegin
    \/ CmdFilter
    \/ CmdFiltered
    \/ CmdCancel
    \/ CmdExecute
    \/ CmdCaptured
    \/ CmdMark
    \/ CmdSpawn
    \/ CmdRunOk
    \/ CmdRunFail
    \/ CmdOnSuccess
    \/ CmdRequeried
    \/ CmdUpdate
    \/ CmdOnError
    \/ CmdRollback
    \/ CmdDone
    \/ GiRaise
    \/ GiFetch
    \/ GiSoftDelete
    \/ DisplayList
    \/ DisplayShow
    \/ CloudSettle
    \/ \E t \in Threads :
        \/ write_acquire(t)
        \/ write_commit(t)
        \/ read_try(t)
        \/ read_select(t)
        \/ get_db(t)

\* Commands with the one-minute resynchronisation and the watch poll.
NextCmd ==
    \/ CmdStep
    \/ RefreshMark
    \/ RefreshFetch
    \/ RefreshSynced
    \/ GiReturn
    \/ PollFetch
    \/ PollFetched
    \/ PollDone

SpecCmd == InitCmd /\ [][NextCmd]_vars

\* C3: a transient STARTING/STOPPING status written by a command stays in
\* the store until the remote confirms or the command fails: while the
\* command's API call is pending or has just been accepted, no
\* reconciliation step (one-minute resync, watch poll, eager re-query) has
\* put the remote's not-yet-updated state in its place.
C3_TransientSurvivesReconciliation ==
    (cmd.phase = "inflight" /\ cmd.task \in {"run", "ok"}) =>
        \A i \in cmd.valid_ids \cap DOMAIN db :
            db[i].status # source_state(cmd.kind)

\* C17: from the hand-over of a start or stop to the worker until the
\* remote call has answered, the store holds the transient status for every
\* target id, so a read in between never returns the pre-command status.
C17_TransientWhileCallPending ==
    cmd.task = "run" =>
        \A i \in cmd.valid_ids :
            i \in DOMAIN db /\ db[i].status = transient(cmd.kind)

\* Commands while a worker creates an instance.
NextRollback ==
    \/ CmdStep
    \/ CreateSpawn
    \/ CreateRun
    \/ CreateFail
    \/ CreateDone
    \/ CreateOnSuccess
    \/ CmdRollbackFetched

SpecRollback == InitCmd /\ [][NextRollback]_vars

\* C4: when a command fails, the rollback leaves every instance of the
\* command with exactly the status it had before the command, in every
\* interleaving, the capture read under lock contention included.
C4_RollbackRestoresStatus ==
    (hpc = "cmd_done" /\ cmd.phase = "error") =>
        \A i \in DOMAIN cmd.before : db[i].status = cmd.before[i]

\* --- batch_terminate

\* The button: ids are selected in the list and the confirmation dialog opens.
TermBegin ==
    /\ ui_at("idle")
    /\ cmd.kind = "none"
    /\ \E selected \in SUBSET DOMAIN view :
        /\ selected # {}
        /\ cmd' = [NoCmd EXCEPT !.kind = "terminate", !.phase = "term_confirm",
                                !.selected = selected, !.valid_ids = selected]
    /\ ui_goto("idle")
    /\ UNCHANGED <<opVars, call, step, remote, region, gi, rf, wk, view, watch>>

\* The dialog is answered No.
TermCancel ==
    /\ ui_at("idle")
    /\ cmd.phase = "term_confirm"
    /\ cmd' = NoCmd
    /\ ui_goto("idle")
    /\ UNCHANGED <<opVars, call, step, remote, region, gi, rf, wk, view, watch>>

\* The dialog is answered Yes: `db = get_db()`.
TermExecute ==
    /\ ui_at("idle")
    /\ cmd.phase = "term_confirm"
    /\ cmd' = [cmd EXCEPT !.phase = "term_execute"]
    /\ invoke("ui", Call("get_db", <<>>, None, NULL, NULL))
    /\ hpc' = "term_db"
    /\ UNCHANGED <<opVars, call, step, remote, region, gi, rf, wk, view, watch>>

\* original_instances = db.get_instances(selected_ids)
TermCapture ==
    /\ ui_at("term_db")
    /\ invoke("ui", Call("get_instances", <<>>, Some(cmd.selected), NULL, NULL))
    /\ hpc' = "term_capture"
    /\ UNCHANGED <<opVars, call, step, remote, region, gi, rf, cmd, wk, view, watch>>

\* original_states[instance_id] = status, for the rows the read returned.
TermCaptured ==
    /\ ui_at("term_capture")
    /\ cmd' = [cmd EXCEPT !.original_states = [i \in DOMAIN ret["ui"] |-> ret["ui"][i].status],
                          !.before = [i \in cmd.selected \cap DOMAIN db |-> db[i].status],
                          !.todo = cmd.selected]
    /\ ui_goto("term_mark")
    /\ UNCHANGED <<opVars, call, step, remote, region, gi, rf, wk, view, watch>>

\* `for iid in selected_ids: db.update_instance_status(iid, "-1")`, then
\* refresh_instances(skip_sync=True).
TermMark ==
    /\ ui_at("term_mark")
    /\ IF cmd.todo # {}
       THEN /\ invoke("ui", Call("update_instance_status", <<>>, None,
                                 next_id(cmd.todo), Sentinel))
            /\ cmd' = [cmd EXCEPT !.todo = @ \ {next_id(cmd.todo)}]
            /\ UNCHANGED <<hpc, rf>>
       ELSE /\ enter_display("term_spawn")
            /\ UNCHANGED cmd
    /\ UNCHANGED <<opVars, call, step, remote, region, gi, wk, view, watch>>

\* run_in_background(terminate_task, on_success, err_callback=on_error)
TermSpawn ==
    /\ ui_at("term_spawn")
    /\ cmd' = [cmd EXCEPT !.phase = "term_inflight", !.task = "term_run"]
    /\ ui_goto("idle")
    /\ UNCHANGED <<opVars, call, step, remote, region, gi, rf, wk, view, watch>>

\* CVMManager.terminate(selected_ids, skip_db_update=True): the API accepts
\* and the instances are released (their ids are never issued again).
TermRunOk ==
    /\ cmd.task = "term_run"
    /\ \A i \in cmd.selected :
        remote[i].state \notin {"NONE", "RELEASED"} /\ remote[i].region = region
    /\ remote' = [i \in Ids |-> IF i \in cmd.selected
                                THEN [NoRemote[i] EXCEPT !.state = "RELEASED"]
                                ELSE remote[i]]
    /\ cmd' = [cmd EXCEPT !.task = "term_ok"]
    /\ UNCHANGED <<storeVars, threadVars, opVars, call, step, region, hpc, gi, rf, wk, view, watch>>

\* CVMManager.terminate: the API call raises.
TermRunFail ==
    /\ cmd.task = "term_run"
    /\ cmd' = [cmd EXCEPT !.task = "term_failed"]
    /\ UNCHANGED <<storeVars, threadVars, opVars, call, step, remote, region, hpc, gi, rf, wk, view, watch>>

\* on_success: refresh_instances(silent=True, skip_sync=True).
TermOnSuccess ==
    /\ ui_at("idle")
    /\ cmd.task = "term_ok"
    /\ cmd' = [cmd EXCEPT !.phase = "term_success", !.task = "none"]
    /\ enter_display("term_done")
    /\ UNCHANGED <<opVars, call, step, remote, region, gi, wk, view, watch>>

\* on_error: `db = get_db()`, then the rollback loop over selected_ids.
TermOnError ==
    /\ ui_at("idle")
    /\ cmd.task = "term_failed"
    /\ cmd' = [cmd EXCEPT !.phase = "term_error", !.task = "none", !.todo = cmd.selected]
    /\ invoke("ui", Call("get_db", <<>>, None, NULL, NULL))
    /\ hpc' = "term_rollback"
    /\ UNCHANGED <<opVars, call, step, remote, region, gi, rf, wk, view, watch>>

\* on_error, one id: `if original_status:` write it back, else ask the API
\* for this id; after the loop refresh_instances(silent=True), a full one:
\* get_db(), then db.mark_all_instances_as_deleted().
TermRollback ==
    /\ ui_at("term_rollback")
    /\ IF cmd.todo = {}
       THEN /\ rf' = [sync_only |-> FALSE, after |-> "term_done", before |-> db]
            /\ invoke("ui", Call("mark_all_instances_as_deleted", <<>>, None, NULL, NULL))
            /\ hpc' = "refresh_marked"
            /\ UNCHANGED <<cmd, gi>>
       ELSE IF or_else(original_status(next_id(cmd.todo)), NULL) # NULL
       THEN /\ invoke("ui", Call("update_instance_status", <<>>, None,
                                 next_id(cmd.todo), original_status(next_id(cmd.todo))))
            /\ cmd' = [cmd EXCEPT !.todo = @ \ {next_id(cmd.todo)}]
            /\ UNCHANGED <<hpc, rf, gi>>
       ELSE /\ enter_get_instances(Some({next_id(cmd.todo)}), "term_rollback_fetched")
            /\ UNCHANGED <<cmd, rf>>
    /\ UNCHANGED <<opVars, call, step, remote, region, wk, view, watch>>

\* on_error, one id without a saved status: the API's state is written when
\* the lookup returned the instance; else the row keeps the sentinel.
TermRollbackFetched ==
    /\ ui_at("term_rollback_fetched")
    /\ IF gi.raised
       THEN ui_goto("term_rollback")
       ELSE IF gi.ret = <<>>
       THEN ui_goto("term_rollback")
       ELSE /\ invoke("ui", Call("update_instance_status", <<>>, None,
                                 next_id(cmd.todo), gi.ret[1].InstanceState))
            /\ hpc' = "term_rollback"
    /\ cmd' = [cmd EXCEPT !.todo = @ \ {next_id(cmd.todo)}]
    /\ gi' = NoGi
    /\ UNCHANGED <<opVars, call, step, remote, region, rf, wk, view, watch>>

\* The callback returns.
TermDone ==
    /\ ui_at("term_done")
    /\ cmd' = NoCmd
    /\ ui_goto("idle")
    /\ UNCHANGED <<opVars, call, step, remote, region, gi, rf, wk, view, watch>>

\* Terminate commands while a worker creates an instance; the only full
\* refresh is the one the error callback ends with.
NextTerm ==
    \/ TermBegin
    \/ TermCancel
    \/ TermExecute
    \/ TermCapture
    \/ TermCaptured
    \/ TermMark
    \/ TermSpawn
    \/ TermRunOk
    \/ TermRunFail
    \/ TermOnSuccess
    \/ TermOnError
    \/ TermRollback
    \/ TermRollbackFetched
    \/ TermDone
    \/ CreateSpawn
    \/ CreateRun
    \/ CreateDone
    \/ CreateOnSuccess
    \/ RefreshFetch
    \/ RefreshSynced
    \/ GiRaise
    \/ GiFetch
    \/ GiSoftDelete
    \/ GiReturn
    \/ DisplayList
    \/ DisplayShow
    \/ \E t \in Threads :
        \/ soft_delete_return(t)
        \/ write_acquire(t)
        \/ write_commit(t)
        \/ read_try(t)
        \/ read_select(t)
        \/ get_db(t)

SpecTerm == InitCmd /\ [][NextTerm]_vars

\* C18: the selected rows hold the sentinel when the remote terminate call
\* is issued; after a successful call they still exist and still hold it;
\* after a failed call each row whose status was captured holds that status
\* again when the error callback returns.
C18_TerminateProtocol ==
    /\ [][(cmd.task = "term_run" /\ cmd'.task # "term_run") =>
            \A i \in cmd.selected \cap DOMAIN db : db[i].status = Sentinel]_vars
    /\ []((hpc = "term_done" /\ cmd.phase = "term_success") =>
            \A i \in DOMAIN cmd.before : i \in DOMAIN db /\ db[i].status = Sentinel)
    /\ []((hpc = "term_done" /\ cmd.phase = "term_error") =>
            \A i \in DOMAIN cmd.original_states :
                or_else(cmd.original_states[i], NULL) # NULL =>
                    db[i].status = cmd.original_states[i])

\* --- creation, commands and the two-second poll together

\* The rows the user selects for a start or a stop.
WatchSelectable == {"ins-a"}

WatchCmdStep == CmdStep /\ cmd'.selected \subseteq WatchSelectable

NextWatch ==
    \/ WatchCmdStep
    \/ CmdRollbackFetched
    \/ CreateSpawn
    \/ CreateRun
    \/ CreateFail
    \/ CreateDone
    \/ CreateOnSuccess
    \/ PollFetch
    \/ PollFetched
    \/ PollDone
    \/ CloudAssignIp

SpecWatch == InitCmd /\ [][NextWatch]_vars

\* An instance of a listing, by id.
reported(instances, i) ==
    instances[CHOOSE k \in 1..Len(instances) : instances[k].InstanceId = i]

C20_SharedPollingLoop ==
    /\ []((hpc = "gi_fetch" /\ gi.after = "poll_fetched") =>
            watched # {} /\ gi.ids = Some(watched))
    /\ [][\A i \in Ids :
            /\ (i \in watch.pending /\ i \notin watch'.pending) =>
                   /\ hpc = "poll_fetched"
                   /\ i \in in_state(gi.ret, "RUNNING") \cup with_ip(gi.ret)
            /\ (i \in watch.starting /\ i \notin watch'.starting) =>
                   hpc = "poll_fetched" /\ i \in in_state(gi.ret, "RUNNING")
            /\ (i \in watch.stopping /\ i \notin watch'.stopping) =>
                   hpc = "poll_fetched" /\ i \in in_state(gi.ret, "STOPPED")
            /\ (hpc = "poll_fetched" /\ hpc' # "poll_fetched" /\ ~gi.raised) =>
                   /\ i \in in_state(gi.ret, "RUNNING") => i \notin watch'.starting
                   /\ i \in in_state(gi.ret, "STOPPED") => i \notin watch'.stopping]_vars
    /\ [](hpc = "idle" => (watch.active <=> watched # {}))

\* A tick fetches a created instance and a started one together.
C20_Witness ==
    /\ hpc = "gi_fetch"
    /\ gi.after = "poll_fetched"
    /\ watch.pending # {}
    /\ watch.starting \cup watch.stopping # {}
    /\ watch.pending # watch.starting \cup watch.stopping

\* --- CVMManager.reset_pwd

\* A password, by what validate_password looks at: its length and how many
\* of the four character classes it has.
Passwords == {[len |-> 12, classes |-> 3], [len |-> 7, classes |-> 4],
              [len |-> 12, classes |-> 2], [len |-> 0, classes |-> 0]}

validate_password(password) ==
    /\ password.len > 0
    /\ password.len >= 8
    /\ password.len <= 30
    /\ password.classes >= 3

\* Two instances of the account, each running or stopped, the second one in
\* either region; the store is empty and the client talks to ap-beijing.
InitReset ==
    /\ \E sa, sb \in {"RUNNING", "STOPPED"}, rb \in Regions :
        remote = [NoRemote EXCEPT
                     !["ins-a"] = [state |-> sa, region |-> "ap-beijing", ips |-> <<"10.0.0.4">>],
                     !["ins-b"] = [state |-> sb, region |-> rb, ips |-> <<"10.0.0.5">>]]
    /\ region = "ap-beijing"
    /\ db = <<>>
    /\ lock = Free
    /\ db_singleton = TRUE
    /\ cache = NoCache
    /\ InitThreads
    /\ call = NoCall
    /\ step = "idle"
    /\ hpc = "idle"
    /\ gi = NoGi
    /\ rf = NoRf
    /\ cmd = NoCmd
    /\ wk = NoWk
    /\ view = <<>>
    /\ watch = NoWatch
    /\ InitOps

\* reset_pwd(instance_ids, password): an invalid password raises ValueError
\* before anything is asked of the cloud.
ResetCall ==
    /\ reset.pc \in {"idle", "returned", "raised"}
    /\ \E ids \in SUBSET Ids \ {{}}, password \in Passwords :
        reset' = [NoReset EXCEPT !.ids = ids,
                                 !.pc = IF validate_password(password) THEN "list" ELSE "raised"]
    /\ UNCHANGED <<storeVars, threadVars, appVars, opVars_but_reset>>

\* The state of each target as the client's region reports it.
listed_states(rem, rg, ids) ==
    [i \in ids |-> IF rem[i].region = rg /\ rem[i].state \notin {"NONE", "RELEASED"}
                   THEN rem[i].state ELSE "NONE"]

\* reset_pwd keeping every listed instance that is RUNNING, target or not.
ResetListAllRunning ==
    /\ reset.pc = "list"
    /\ LET instances == instance_records(remote, describe_instances(remote, region, None))
       IN  /\ db' = soft_delete_missing(upsert_instances(db, instances),
                                        Some(BatchIds(instances)))
           /\ reset' = [reset EXCEPT !.pc = "issue",
                                     !.listed = listed_states(remote, region, reset.ids),
                                     !.running = in_state(instances, "RUNNING")]
    /\ UNCHANGED <<cache, lock, db_singleton, threadVars, appVars, opVars_but_reset>>

\* instances = self.get_instances(None): a failure is re-raised; else the
\* listing is written to the store and the RUNNING targets are kept.
ResetList ==
    /\ reset.pc = "list"
    /\ \/ /\ reset' = [reset EXCEPT !.pc = "raised"]
          /\ UNCHANGED db
       \/ LET instances == instance_records(remote, describe_instances(remote, region, None))
          IN  /\ db' = soft_delete_missing(upsert_instances(db, instances),
                                           Some(BatchIds(instances)))
              /\ reset' = [reset EXCEPT !.pc = "issue",
                                        !.listed = listed_states(remote, region, reset.ids),
                                        !.running = in_state(instances, "RUNNING") \cap reset.ids]
    /\ UNCHANGED <<cache, lock, db_singleton, threadVars, appVars, opVars_but_reset>>

\* Whether the cloud accepts ResetInstancesPassword: every target is an
\* instance of the client's region, stopped unless the request forces a stop.
reset_accepted(rem, rg, ids, force) ==
    \A i \in ids :
        /\ rem[i].region = rg
        /\ rem[i].state \notin {"NONE", "RELEASED"}
        /\ force \/ rem[i].state = "STOPPED"

\* ResetInstancesPassword is sent, with ForceStop when a target was RUNNING;
\* a refusal is re-raised. A forced stop takes the running targets down.
ResetIssue ==
    /\ reset.pc = "issue"
    /\ LET force == reset.running # {}
       IN  \/ /\ reset_accepted(remote, region, reset.ids, force)
              /\ remote' = [i \in Ids |->
                               IF i \in reset.ids /\ remote[i].state # "STOPPED"
                               THEN [remote[i] EXCEPT !.state = "STOPPING"] ELSE remote[i]]
              /\ reset' = [reset EXCEPT !.sent = TRUE, !.force = force,
                                        !.pc = IF reset.running # {} THEN "restart"
                                               ELSE "returned"]
           \/ /\ reset' = [reset EXCEPT !.sent = TRUE, !.force = force, !.pc = "raised"]
              /\ UNCHANGED remote
    /\ UNCHANGED <<storeVars, threadVars, opVars_but_reset, call, step, region, hpc, gi, rf,
                   cmd, wk, view, watch>>

\* The rows of ids with their status set, one update_instance_status each.
mark_status(d, ids, status) ==
    [i \in DOMAIN d |-> IF i \in ids THEN update_instance_status(d, i, status, NULL, NULL)[i]
                        ELSE d[i]]

\* After the two-second sleep, self.start(running_instance_ids): the rows go
\* to STARTING; a refusal rolls them back inside start and is only logged.
ResetStart ==
    /\ reset.pc = "restart"
    /\ \/ /\ \A i \in reset.running : remote[i].state = "STOPPED"
          /\ remote' = [i \in Ids |-> IF i \in reset.running
                                      THEN [remote[i] EXCEPT !.state = "STARTING"]
                                      ELSE remote[i]]
          /\ db' = mark_status(db, reset.running, "STARTING")
          /\ reset' = [reset EXCEPT !.started = reset.running, !.pc = "returned"]
       \/ /\ reset' = [reset EXCEPT !.started = reset.running, !.start_failed = TRUE,
                                    !.pc = "returned"]
          /\ UNCHANGED <<remote, db>>
    /\ UNCHANGED <<cache, lock, db_singleton, threadVars, opVars_but_reset, call, step, region,
                   hpc, gi, rf, cmd, wk, view, watch>>

NextReset ==
    \/ ResetCall
    \/ ResetList
    \/ ResetIssue
    \/ ResetStart
    \/ CloudSettle

SpecReset == InitReset /\ [][NextReset]_vars

MaxDepth == 5

\* fallback_types, in priority order.
FallbackTypes == <<"CLOUD_PREMIUM", "CLOUD_SSD", "CLOUD_BSSD", "CLOUD_HSSD">>

\* system_disk_type as the callers pass it: a type of the dialog, or none.
DiskInputs == {"CLOUD_PREMIUM", "CLOUD_SSD", "CLOUD_BSSD", "CLOUD_HSSD", NULL}

\* get_regions(), in the order the service lists them.
RegionOrder == <<"ap-beijing", "ap-shanghai">>

\* An exception: what its message says, and the request that raised it.
CreateError(kind, at) == [kind |-> kind, at |-> at]

\* is_disk_type_error / the resource-insufficient test on str(e).
is_disk_type_error(e) == e.kind = "disk"
is_sold_out(e) == e.kind = "soldout"

\* A frame of create(…, region, …, system_disk_type).
CreateFrame(rg, disk) ==
    [fn |-> "create", region |-> rg, disk |-> disk, pc |-> "first", tried |-> <<>>,
     left |-> <<>>, types |-> {}, first_at |-> 0, original_error |-> None, err |-> None,
     exhausted |-> FALSE, res |-> None, requests |-> <<>>, warnings |-> <<>>]

\* A frame of _create_fallback(…, preferred_region, …).
FallbackFrame(preferred) ==
    [fn |-> "_create_fallback", preferred |-> preferred, pc |-> "regions", left |-> <<>>,
     res |-> None]

top == creation.stack[Len(creation.stack)]

\* The stack with its top frame replaced.
with_top(f) == [creation.stack EXCEPT ![Len(creation.stack)] = f]

\* The errors RunInstances may answer a request in region rg with.
run_errors(rg, at) ==
    IF rg \in creation.sold THEN {CreateError("soldout", at)}
    ELSE {CreateError("disk", at), CreateError("other", at)}

\* The creation form is submitted: create(…) is called on the worker.
CreationCall ==
    /\ creation.stack = <<>>
    /\ \E rg \in Regions, disk \in DiskInputs, sold \in SUBSET Regions :
        creation' = [NoCreation EXCEPT !.stack = <<CreateFrame(rg, disk)>>, !.sold = sold]
    /\ UNCHANGED <<storeVars, threadVars, appVars, opVars_but_creation>>

\* RunInstances accepted: the instance exists and is upserted as PENDING.
created(i, rg) ==
    /\ remote' = [remote EXCEPT ![i] = [state |-> "PENDING", region |-> rg, ips |-> <<>>]]
    /\ db' = upsert_instances(db, <<Record(i, "PENDING", rg, <<>>, <<>>, NULL, NULL)>>)

\* create: the client is switched to the region; a step before the request
\* may raise; else the first RunInstances is sent with
\* `system_disk_type or "CLOUD_PREMIUM"`.
RunFirst ==
    /\ creation.stack # <<>>
    /\ top.fn = "create"
    /\ top.pc = "first"
    /\ region' = top.region
    /\ LET type == or_else(top.disk, "CLOUD_PREMIUM")
           at   == Len(creation.sent) + 1
           sent == Append(creation.sent, <<top.region, type>>)
           f    == [top EXCEPT !.tried = <<top.disk>>, !.types = {type}, !.first_at = at,
                               !.requests = <<type>>]
       IN  \/ /\ creation' = [creation EXCEPT !.stack = with_top(
                     [top EXCEPT !.pc = "except", !.err = Some(CreateError("other", 0))])]
              /\ UNCHANGED <<remote, db>>
           \/ /\ top.region \notin creation.sold
              /\ \E i \in Ids :
                    /\ remote[i].state = "NONE"
                    /\ created(i, top.region)
              /\ creation' = [creation EXCEPT !.sent = sent, !.stack = with_top(
                     [f EXCEPT !.pc = "done", !.res = Some("ok")])]
           \/ /\ \E e \in run_errors(top.region, at) :
                    creation' = [creation EXCEPT !.sent = sent, !.stack = with_top(
                        IF is_disk_type_error(e)
                        THEN [f EXCEPT !.pc = "fallback", !.original_error = Some(e),
                                       !.left = SelectSeq(FallbackTypes,
                                                    LAMBDA t : t # top.disk)]
                        ELSE [f EXCEPT !.pc = "except", !.original_error = Some(e),
                                       !.err = Some(e)])]
              /\ UNCHANGED <<remote, db>>
    /\ UNCHANGED <<cache, lock, db_singleton, threadVars, opVars_but_creation, call, step,
                   hpc, gi, rf, cmd, wk, view, watch>>

\* The fallback loop raising the error of its last attempt.
RunFallbackRaisesLast ==
    /\ creation.stack # <<>>
    /\ top.fn = "create"
    /\ top.pc = "fallback"
    /\ LET type == Head(top.left)
           at   == Len(creation.sent) + 1
           sent == Append(creation.sent, <<top.region, type>>)
           f    == [top EXCEPT !.types = @ \cup {type}, !.left = Tail(@),
                               !.requests = Append(@, type),
                               !.warnings = Append(@, <<top.tried[Len(top.tried)], type>>)]
       IN  /\ \E e2 \in run_errors(top.region, at) \cup {CreateError("other", at)} :
                creation' = [creation EXCEPT !.sent = sent, !.stack = with_top(
                    IF Tail(top.left) = <<>>
                    THEN [f EXCEPT !.tried = Append(@, type), !.pc = "except",
                                   !.exhausted = TRUE, !.err = Some(e2)]
                    ELSE [f EXCEPT !.tried = Append(@, type)])]
           /\ UNCHANGED <<remote, db>>
    /\ UNCHANGED <<cache, lock, db_singleton, threadVars, opVars_but_creation, call, step,
                   region, hpc, gi, rf, cmd, wk, view, watch>>

\* One turn of `for fallback_type in fallback_types`: the request is sent
\* again with that type; after the last type `raise original_error`.
RunFallback ==
    /\ creation.stack # <<>>
    /\ top.fn = "create"
    /\ top.pc = "fallback"
    /\ LET type == Head(top.left)
           at   == Len(creation.sent) + 1
           sent == Append(creation.sent, <<top.region, type>>)
           f    == [top EXCEPT !.types = @ \cup {type}, !.left = Tail(@),
                               !.requests = Append(@, type),
                               !.warnings = Append(@, <<top.tried[Len(top.tried)], type>>)]
       IN  \/ /\ top.region \notin creation.sold
              /\ \E i \in Ids :
                    /\ remote[i].state = "NONE"
                    /\ created(i, top.region)
              /\ creation' = [creation EXCEPT !.sent = sent, !.stack = with_top(
                     [f EXCEPT !.pc = "done", !.res = Some("ok")])]
           \/ /\ \E e2 \in run_errors(top.region, at) \cup {CreateError("other", at)} :
                    creation' = [creation EXCEPT !.sent = sent, !.stack = with_top(
                        IF Tail(top.left) = <<>>
                        THEN [f EXCEPT !.tried = Append(@, type), !.pc = "except",
                                       !.exhausted = TRUE, !.err = top.original_error]
                        ELSE [f EXCEPT !.tried = Append(@, type)])]
              /\ UNCHANGED <<remote, db>>
    /\ UNCHANGED <<cache, lock, db_singleton, threadVars, opVars_but_creation, call, step,
                   region, hpc, gi, rf, cmd, wk, view, watch>>

\* create's `except Exception as e`: a resource-insufficient message calls
\* _create_fallback(…, region, …); any other error is re-raised.
CreateExcept ==
    /\ creation.stack # <<>>
    /\ top.fn = "create"
    /\ top.pc = "except"
    /\ IF is_sold_out(top.err[1])
       THEN /\ Len(creation.stack) < MaxDepth
            /\ creation' = [creation EXCEPT !.stack =
                   Append(with_top([top EXCEPT !.pc = "wait"]), FallbackFrame(top.region))]
       ELSE creation' = [creation EXCEPT !.stack =
                   with_top([top EXCEPT !.pc = "done", !.res = Some(<<"raised", top.err[1]>>)])]
    /\ UNCHANGED <<storeVars, threadVars, appVars, opVars_but_creation>>

\* _create_fallback: get_regions(), then the loop: the preferred region is
\* skipped, create(…, r, …, None, 1) is called for the next one, and after
\* the last one ValueError is raised.
FallbackStep ==
    /\ creation.stack # <<>>
    /\ top.fn = "_create_fallback"
    /\ \/ /\ top.pc = "regions"
          /\ \/ creation' = [creation EXCEPT !.stack = with_top(
                    [top EXCEPT !.pc = "done",
                                !.res = Some(<<"raised", CreateError("other", 0)>>)])]
             \/ creation' = [creation EXCEPT !.stack = with_top(
                    [top EXCEPT !.pc = "loop", !.left = RegionOrder])]
       \/ /\ top.pc = "loop"
          /\ IF top.left = <<>>
             THEN creation' = [creation EXCEPT !.stack = with_top(
                      [top EXCEPT !.pc = "done",
                                  !.res = Some(<<"raised", CreateError("all_regions", 0)>>)])]
             ELSE IF Head(top.left) = top.preferred
             THEN creation' = [creation EXCEPT !.stack = with_top(
                      [top EXCEPT !.left = Tail(@)])]
             ELSE /\ Len(creation.stack) < MaxDepth
                  /\ creation' = [creation EXCEPT !.stack =
                         Append(with_top([top EXCEPT !.pc = "wait", !.left = Tail(@)]),
                                CreateFrame(Head(top.left), "CLOUD_PREMIUM"))]
    /\ UNCHANGED <<storeVars, threadVars, appVars, opVars_but_creation>>

\* A frame returns or raises into its caller: the loop of _create_fallback
\* returns the first success and goes on after a failure; create returns
\* whatever _create_fallback did; the outermost create answers the worker.
FrameReturn ==
    /\ creation.stack # <<>>
    /\ top.pc = "done"
    /\ LET below == SubSeq(creation.stack, 1, Len(creation.stack) - 1)
           caller == below[Len(below)]
       IN  IF below = <<>>
           THEN creation' = [creation EXCEPT !.stack = <<>>, !.outcome = top.res,
                                             !.final = Some(top)]
           ELSE IF caller.fn = "_create_fallback" /\ top.res # Some("ok")
           THEN creation' = [creation EXCEPT !.stack =
                    [below EXCEPT ![Len(below)] = [caller EXCEPT !.pc = "loop"]]]
           ELSE creation' = [creation EXCEPT !.stack =
                    [below EXCEPT ![Len(below)] = [caller EXCEPT !.pc = "done",
                                                                 !.res = top.res]]]
    /\ UNCHANGED <<storeVars, threadVars, appVars, opVars_but_creation>>

NextCreate ==
    \/ CreationCall
    \/ RunFirst
    \/ RunFallback
    \/ CreateExcept
    \/ FallbackStep
    \/ FrameReturn

SpecCreate == InitStore /\ [][NextCreate]_vars

\* The RunInstances answer a frame failed with after every fallback type.
exhausted_ok(f) ==
    f.exhausted =>
        /\ f.types = {FallbackTypes[k] : k \in 1..Len(FallbackTypes)}
        /\ f.original_error[1].at = f.first_at
        /\ f.pc = "except" => f.err = f.original_error
        /\ f.pc = "done" => f.res = Some(<<"raised", f.original_error[1]>>)

\* C22: a create whose first request failed for its disk type and whose
\* every fallback request failed too has sent exactly the four fallback
\* types and raises the error of its first request.
C22_DiskFallbackRaisesOriginal ==
    /\ \A k \in 1..Len(creation.stack) :
          creation.stack[k].fn = "create" => exhausted_ok(creation.stack[k])
    /\ creation.final # None =>
          /\ exhausted_ok(creation.final[1])
          /\ creation.final[1].exhausted => creation.outcome = creation.final[1].res

\* The outermost create raised after its four fallback requests failed.
C22_Witness ==
    /\ creation.final # None
    /\ creation.final[1].exhausted
    /\ creation.final[1].disk = "CLOUD_SSD"
    /\ creation.outcome = Some(<<"raised", CreateError("disk", 1)>>)
    /\ Len(creation.sent) = 4

\* C23: under _create_fallback no create is called for the region the
\* request was made for, and create is entered at most once per region.
C23_FallbackSkipsOriginal ==
    \A j, k \in 1..Len(creation.stack) :
        (j < k /\ creation.stack[j].fn = "create" /\ creation.stack[k].fn = "create") =>
            creation.stack[j].region # creation.stack[k].region

\* --- the zones table, region by region

\* The calls that write the zones table, for either region, from any thread.
ZoneCalls ==
    <<CacheCall("replace_zones", [region |-> "ap-beijing",
                                  zones |-> <<"ap-beijing-1", "ap-beijing-2">>]),
      CacheCall("replace_zones", [region |-> "ap-beijing", zones |-> <<>>]),
      CacheCall("replace_zones", [region |-> "ap-shanghai", zones |-> <<"ap-shanghai-1">>]),
      CacheCall("replace_zones", [region |-> "", zones |-> <<"ap-beijing-3">>]),
      CacheCall("batch_sync_data",
                [regions |-> <<>>,
                 zones_map |-> <<[region |-> "ap-shanghai", zones |-> <<"ap-shanghai-2">>]>>,
                 images_map |-> <<>>, instances |-> None]),
      CacheCall("batch_sync_data",
                [regions |-> <<"ap-beijing">>,
                 zones_map |-> <<[region |-> "ap-beijing", zones |-> <<"ap-beijing-3">>]>>,
                 images_map |-> <<[region |-> "ap-shanghai", images |-> <<"img-1">>]>>,
                 instances |-> None])>>

\* Thread t, outside any store call, makes one of them.
ZoneClient(t) ==
    /\ \E k \in 1..Len(ZoneCalls) : invoke(t, ZoneCalls[k])
    /\ UNCHANGED callerVars

NextZones ==
    \E t \in Threads :
        \/ ZoneClient(t)
        \/ replace_return(t)
        \/ write_acquire(t)
        \/ write_execute(t)
        \/ write_raise(t)
        \/ write_commit(t)

SpecZones == InitTxn /\ [][NextZones]_vars

\* The regions whose zones a call is made for.
zone_targets(c) ==
    CASE c.op = "replace_zones" -> {c.region}
      [] c.op = "batch_sync_data" -> {c.zones_map[k].region : k \in 1..Len(c.zones_map)}
      [] OTHER -> {}

\* The zones cached for region rg.
zones_of(c, rg) == {z \in c.zones : z[1] = rg}

\* C24: a step of replace_zones or of batch_sync_data made for other
\* regions leaves the zones of region X as they were, in the file and in
\* what the call's connection sees, whether the call commits, fails or
\* returns early.
C24_ZoneReplaceIsolation ==
    [][\A t \in Threads, X \in Regions :
          (pc[t] # "idle" /\ <<pc[t], tx[t]>> # <<pc'[t], tx'[t]>> /\ X \notin zone_targets(cur[t])) =>
              /\ zones_of(cache', X) = zones_of(cache, X)
              /\ (tx[t].open /\ tx'[t].open) =>
                    zones_of(tx'[t].work.cache, X) = zones_of(tx[t].work.cache, X)]_vars

\* replace_zones for ap-beijing has deleted that region's zones while
\* ap-shanghai had zones cached, and those are still there.
C24_Witness ==
    \E t \in Threads :
        /\ cur[t].op = "replace_zones"
        /\ cur[t].region = "ap-beijing"
        /\ tx[t].open
        /\ tx[t].done >= 1
        /\ zones_of(tx[t].before.cache, "ap-beijing") # {}
        /\ zones_of(tx[t].work.cache, "ap-beijing") = {}
        /\ zones_of(tx[t].work.cache, "ap-shanghai") = {<<"ap-shanghai", "ap-shanghai-2">>}

\* C25: the instances table maps each instance id to one row, and no step
\* of a store operation removes a row: the stored ids only grow, in the file
\* and in what an open transaction sees.
C25_RowsNeverDeleted ==
    [][/\ DOMAIN db \subseteq DOMAIN db'
       /\ \A t \in Threads :
            (tx[t].open /\ tx'[t].open) =>
                DOMAIN tx[t].work.db \subseteq DOMAIN tx'[t].work.db]_vars

\* Both rows are stored and soft-deleted after soft_delete_missing and
\* mark_all_instances_as_deleted committed.
C25_Witness ==
    /\ DOMAIN db = Ids
    /\ \A i \in Ids : db[i].status = Sentinel
    /\ \E t \in Threads :
        /\ cur[t].op = "mark_all_instances_as_deleted"
        /\ pc[t] = "idle"
        /\ ~tx[t].raised

\* --- main.preload_reference_data: the bulk preload at startup

\* What DescribeZones / DescribeImages answer for a region.
RemoteZones(rg) ==
    IF rg = "ap-beijing" THEN <<"ap-beijing-1", "ap-beijing-2">> ELSE <<"ap-shanghai-1">>
RemoteImages(rg) == IF rg = "ap-beijing" THEN <<"img-1">> ELSE <<"img-1", "img-2">>

\* What the cloud does during one run: whether credentials are configured
\* and the manager can be built, whether DescribeRegions answers, and the
\* regions whose manager, zone fetch and image fetch succeed.
PreloadEnvs ==
    [configured : BOOLEAN, regions_ok : BOOLEAN, init_ok : SUBSET Regions,
     zones_ok : SUBSET Regions, images_ok : SUBSET Regions]

\* The tables a previous run left in the file.
StaleCache ==
    [config |-> NULL, regions |-> {"ap-beijing"},
     zones |-> {<<"ap-beijing", "ap-beijing-0">>, <<"ap-shanghai", "ap-shanghai-0">>},
     images |-> {<<<<"ap-shanghai", "PUBLIC_IMAGE">>, "img-0">>}]
StaleRows ==
    upsert_instances(<<>>, <<Record("ins-b", "RUNNING", "ap-beijing", <<>>, <<"10.0.0.5">>,
                                    NULL, NULL)>>)

\* The public images cached for region rg.
images_of(c, rg) == {m \in c.images : m[1] = <<rg, "PUBLIC_IMAGE">>}

\* The rows replace_zones / replace_images leave for region rg.
zone_rows(rg) == {<<rg, RemoteZones(rg)[k]>> : k \in 1..Len(RemoteZones(rg))}
image_rows(rg) ==
    {<<<<rg, "PUBLIC_IMAGE">>, RemoteImages(rg)[k]>> : k \in 1..Len(RemoteImages(rg))}

\* A store method called to its commit.
committed(c) == run(Tables(db, cache), statements(c))

\* The process starts: the file is new or left by a previous run, one
\* instance may exist in the default region.
InitPreload ==
    /\ db_singleton = TRUE
    /\ lock = Free
    /\ InitThreads
    /\ call = NoCall
    /\ step = "idle"
    /\ \E stale \in BOOLEAN, sa \in {"NONE", "RUNNING"} :
        /\ db = IF stale THEN StaleRows ELSE <<>>
        /\ cache = IF stale THEN StaleCache ELSE NoCache
        /\ remote = [NoRemote EXCEPT !["ins-a"] =
                        IF sa = "NONE" THEN @
                        ELSE [state |-> sa, region |-> "ap-beijing", ips |-> <<"10.0.0.4">>]]
    /\ region = "ap-beijing"
    /\ hpc = "idle" /\ gi = NoGi /\ rf = NoRf /\ cmd = NoCmd /\ wk = NoWk
    /\ view = <<>> /\ watch = NoWatch
    /\ reset = NoReset /\ creation = NoCreation /\ helper = NoHelper
    /\ timers = NoTimers /\ bg_threads = NoBgThreads
    /\ conf = NoConf /\ paging = NoPaging /\ imgs = NoImgs
    /\ \E env \in PreloadEnvs : preload = [NoPreload EXCEPT !.env = env]

\* preload_reference_data up to `db = get_db()`: without credentials, or
\* when the manager cannot be built, it returns.
PreloadStart ==
    /\ preload.pc = "idle"
    /\ preload' = [preload EXCEPT !.before = Tables(db, cache),
                                   !.pc = IF preload.env.configured THEN "regions" ELSE "skipped"]
    /\ UNCHANGED <<storeVars, threadVars, appVars, opVars_but_preload>>

\* get_regions() and replace_regions(regions) in one try: an exception of
\* either is logged and the function returns; else one task per region is
\* submitted to the pool.
PreloadRegions ==
    /\ preload.pc = "regions"
    /\ \/ /\ ~preload.env.regions_ok
          /\ preload' = [preload EXCEPT !.pc = "aborted"]
          /\ UNCHANGED cache
       \/ /\ preload.env.regions_ok
          /\ preload' = [preload EXCEPT !.pc = "aborted", !.store_failed = @ \cup {"regions"}]
          /\ UNCHANGED cache
       \/ /\ preload.env.regions_ok
          /\ cache' = committed(CacheCall("replace_regions", [regions |-> RegionOrder])).cache
          /\ preload' = [preload EXCEPT !.pc = "pool", !.regions = RegionOrder,
                                        !.task = [r \in Regions |-> "init"]]
    /\ UNCHANGED <<db, lock, db_singleton, threadVars, appVars, opVars_but_preload>>

\* load_region_data: the thread's own CVMManager; when it cannot be built
\* the task returns.
LoadRegionInit(r) ==
    /\ preload.pc = "pool"
    /\ preload.task[r] = "init"
    /\ preload' = [preload EXCEPT !.task[r] = IF r \in preload.env.init_ok THEN "zones" ELSE "done"]
    /\ UNCHANGED <<storeVars, threadVars, appVars, opVars_but_preload>>

\* The zone step with its exception leaving the pool: every task ends.
LoadRegionZonesUncaught(r) ==
    /\ preload.pc = "pool"
    /\ preload.task[r] = "zones"
    /\ \/ /\ r \notin preload.env.zones_ok
          /\ preload' = [preload EXCEPT !.task = [q \in Regions |-> "done"]]
          /\ UNCHANGED cache
       \/ /\ r \in preload.env.zones_ok
          /\ cache' = committed(CacheCall("replace_zones",
                                          [region |-> r, zones |-> RemoteZones(r)])).cache
          /\ preload' = [preload EXCEPT !.task[r] = "images"]
    /\ UNCHANGED <<db, lock, db_singleton, threadVars, appVars, opVars_but_preload>>

\* load_region_data, `try: get_zones; replace_zones`: an exception of
\* either is logged and the task goes on to the images.
LoadRegionZones(r) ==
    /\ preload.pc = "pool"
    /\ preload.task[r] = "zones"
    /\ \/ /\ r \notin preload.env.zones_ok
          /\ preload' = [preload EXCEPT !.task[r] = "images"]
          /\ UNCHANGED cache
       \/ /\ r \in preload.env.zones_ok
          /\ preload' = [preload EXCEPT !.task[r] = "images",
                                        !.store_failed = @ \cup {<<"zones", r>>}]
          /\ UNCHANGED cache
       \/ /\ r \in preload.env.zones_ok
          /\ cache' = committed(CacheCall("replace_zones",
                                          [region |-> r, zones |-> RemoteZones(r)])).cache
          /\ preload' = [preload EXCEPT !.task[r] = "images"]
    /\ UNCHANGED <<db, lock, db_singleton, threadVars, appVars, opVars_but_preload>>

\* load_region_data, `try: get_images; replace_images`: the same.
LoadRegionImages(r) ==
    /\ preload.pc = "pool"
    /\ preload.task[r] = "images"
    /\ \/ /\ r \notin preload.env.images_ok
          /\ preload' = [preload EXCEPT !.task[r] = "done"]
          /\ UNCHANGED cache
       \/ /\ r \in preload.env.images_ok
          /\ preload' = [preload EXCEPT !.task[r] = "done",
                                        !.store_failed = @ \cup {<<"images", r>>}]
          /\ UNCHANGED cache
       \/ /\ r \in preload.env.images_ok
          /\ cache' = committed(CacheCall("replace_images",
                            [region |-> r, image_type |-> "PUBLIC_IMAGE",
                             images |-> RemoteImages(r)])).cache
          /\ preload' = [preload EXCEPT !.task[r] = "done"]
    /\ UNCHANGED <<db, lock, db_singleton, threadVars, appVars, opVars_but_preload>>

\* After the pool has ended: mark_all_instances_as_deleted, then
\* get_instances(default_region), in one try that only logs.
PreloadInstances ==
    /\ preload.pc = "pool"
    /\ \A r \in Regions : preload.task[r] = "done"
    /\ preload' = [preload EXCEPT !.pc = "done"]
    /\ \/ UNCHANGED db
       \/ db' = mark_all_instances_as_deleted(db)
       \/ LET instances == instance_records(remote, describe_instances(remote, region, None))
          IN  db' = soft_delete_missing(
                        upsert_instances(mark_all_instances_as_deleted(db), instances),
                        Some(BatchIds(instances)))
    /\ UNCHANGED <<cache, lock, db_singleton, threadVars, appVars, opVars_but_preload>>

NextPreload ==
    \/ PreloadStart
    \/ PreloadRegions
    \/ \E r \in Regions : LoadRegionInit(r)
    \/ \E r \in Regions : LoadRegionZones(r)
    \/ \E r \in Regions : LoadRegionImages(r)
    \/ PreloadInstances

SpecPreload == InitPreload /\ [][NextPreload]_vars

\* C26: a preload that ended at the region list has written nothing; once
\* the pool has ended, every region whose manager, zone fetch and image
\* fetch succeed has its zones and public images in the store, whatever
\* happened to the other regions (a store exception aside).
C26_PreloadIsolation ==
    /\ preload.pc \in {"aborted", "skipped"} => Tables(db, cache) = preload.before
    /\ ~preload.env.regions_ok => preload.pc \in {"idle", "skipped", "regions", "aborted"}
    /\ (preload.pc = "done" /\ preload.store_failed = {}) =>
          \A r \in Regions :
              (r \in preload.env.init_ok \cap preload.env.zones_ok \cap preload.env.images_ok) =>
                  /\ zones_of(cache, r) = zone_rows(r)
                  /\ images_of(cache, r) = image_rows(r)

\* Both fetches of ap-beijing failed, and ap-shanghai, over a file a
\* previous run left, has its zones and images replaced.
C26_Witness ==
    /\ preload.pc = "done"
    /\ preload.before.cache = StaleCache
    /\ preload.env.zones_ok = {"ap-shanghai"}
    /\ preload.env.images_ok = {"ap-shanghai"}
    /\ "ap-shanghai" \in preload.env.init_ok
    /\ zones_of(cache, "ap-shanghai") = zone_rows("ap-shanghai")
    /\ images_of(cache, "ap-shanghai") = image_rows("ap-shanghai")
    /\ zones_of(cache, "ap-beijing") = {<<"ap-beijing", "ap-beijing-0">>}

\* --- core.preload.preload_reference_data: the preload through the helper

\* Health checks the 5-second readiness loop has time for.
MaxHealthPolls == 3

\* The answers the helper can give to POST /preload_all.
HelperResponses == [status : {200, 500}, success : BOOLEAN]

\* The call ends returning normally, its caller has no exception.
helper_return_swallowing(reason) ==
    helper' = [helper EXCEPT !.pc = "end", !.outcome = "returned", !.reason = reason]

\* RuntimeError(reason) leaves _preload_via_go; preload_reference_data logs
\* it and re-raises.
helper_raise(reason) ==
    helper' = [helper EXCEPT !.pc = "end", !.outcome = "raised", !.reason = reason]

\* preload_reference_data() is called (a worker, at startup or on demand):
\* credentials are configured or not, the helper's binary is there or not.
HelperCall ==
    /\ helper.pc \in {"idle", "end"}
    /\ \E configured \in BOOLEAN, exe \in BOOLEAN :
        helper' = [NoHelper EXCEPT !.pc = "config", !.server = helper.server,
                                   !.go_proc = helper.go_proc, !.launched = helper.launched,
                                   !.configured = configured, !.exe = exe,
                                   !.store = Tables(db, cache)]
    /\ UNCHANGED <<storeVars, threadVars, appVars, opVars_but_helper>>

\* _preload_via_go: no get_api_config or no credentials raises.
HelperConfig ==
    /\ helper.pc = "config"
    /\ IF helper.configured
       THEN helper' = [helper EXCEPT !.pc = "health"]
       ELSE helper_raise("credentials")
    /\ UNCHANGED <<storeVars, threadVars, appVars, opVars_but_helper>>

\* GET /health, timeout 1 s: answered, the request is sent directly; else
\* _ensure_go_server_running.
HelperHealth ==
    /\ helper.pc = "health"
    /\ \/ /\ helper.server = "up"
          /\ helper' = [helper EXCEPT !.pc = "post", !.ready = TRUE]
       \/ helper' = [helper EXCEPT !.pc = "quick"]
    /\ UNCHANGED <<storeVars, threadVars, appVars, opVars_but_helper>>

\* _ensure_go_server_running, step 1: two quick health checks; one answer
\* returns, two failures go on to start the helper.
HelperQuick ==
    /\ helper.pc = "quick"
    /\ \/ /\ helper.server = "up"
          /\ helper' = [helper EXCEPT !.pc = "post", !.ready = TRUE]
       \/ helper' = [helper EXCEPT !.checks = @ + 1,
                                   !.pc = IF helper.checks + 1 = 2 THEN "exe" ELSE "quick"]
    /\ UNCHANGED <<storeVars, threadVars, appVars, opVars_but_helper>>

\* Steps 2 and 3: a missing binary raises; Popen raises or the process is
\* launched; the Popen object is not kept, _GO_PROC stays as it was.
HelperLaunch ==
    /\ helper.pc = "exe"
    /\ \/ /\ ~helper.exe
          /\ helper_raise("binary missing")
       \/ /\ helper.exe
          /\ helper_raise("launch failed")
       \/ /\ helper.exe
          /\ helper' = [helper EXCEPT !.pc = "poll", !.started = TRUE,
                                      !.launched = @ \/ helper.server = "down",
                                      !.server = IF @ = "down" THEN "starting" ELSE @]
    /\ UNCHANGED <<storeVars, threadVars, appVars, opVars_but_helper>>

\* Step 4: while the 5 seconds last, GET /health; an answer returns, a
\* failure sleeps and tries again; after the 5 seconds RuntimeError.
HelperPoll ==
    /\ helper.pc = "poll"
    /\ IF helper.polls < MaxHealthPolls
       THEN \/ /\ helper.server = "up"
               /\ helper' = [helper EXCEPT !.pc = "post", !.ready = TRUE]
            \/ helper' = [helper EXCEPT !.polls = @ + 1]
       ELSE helper_raise("readiness timeout")
    /\ UNCHANGED <<storeVars, threadVars, appVars, opVars_but_helper>>

\* requests.post(GO_PRELOAD_URL, json = payload, timeout = 120) is sent.
HelperPost ==
    /\ helper.pc = "post"
    /\ helper' = [helper EXCEPT !.pc = "wait", !.posted = TRUE]
    /\ UNCHANGED <<storeVars, threadVars, appVars, opVars_but_helper>>

\* The helper process handles the request: it fetches and writes the tables
\* itself, all or part of them, and answers.
HelperServe ==
    /\ helper.pc = "wait"
    /\ helper.server = "up"
    /\ helper.resp = NoHelper.resp
    /\ \E r \in HelperResponses, wrote \in BOOLEAN :
        /\ cache' = IF wrote
                    THEN committed(CacheCall("replace_regions", [regions |-> RegionOrder])).cache
                    ELSE cache
        /\ helper' = [helper EXCEPT !.resp = r, !.store = Tables(db, cache')]
    /\ UNCHANGED <<db, lock, db_singleton, threadVars, appVars, opVars_but_helper>>

\* The helper process comes up, or goes away.
HelperProcess ==
    /\ \/ /\ helper.server = "starting"
          /\ helper' = [helper EXCEPT !.server = "up"]
       \/ /\ helper.server \in {"starting", "up"}
          /\ helper.pc \in {"health", "quick", "poll", "post", "wait"}
          /\ helper' = [helper EXCEPT !.server = "down", !.launched = FALSE]
    /\ UNCHANGED <<storeVars, threadVars, appVars, opVars_but_helper>>

\* The POST ends: Timeout, ConnectionError or another exception raise;
\* else a status other than 200 raises, success false raises, and only
\* then the function returns.
HelperReceive ==
    /\ helper.pc = "wait"
    /\ \/ helper_raise("request timeout")
       \/ helper_raise("connection error")
       \/ /\ helper.resp # NoHelper.resp
          /\ IF helper.resp.status # 200 THEN helper_raise("status")
             ELSE IF ~helper.resp.success THEN helper_raise("success false")
             ELSE helper' = [helper EXCEPT !.pc = "end", !.outcome = "returned"]
    /\ UNCHANGED <<storeVars, threadVars, appVars, opVars_but_helper>>

NextHelper ==
    \/ HelperCall
    \/ HelperConfig
    \/ HelperHealth
    \/ HelperQuick
    \/ HelperLaunch
    \/ HelperPoll
    \/ HelperPost
    \/ HelperServe
    \/ HelperProcess
    \/ HelperReceive

SpecHelper == InitStore /\ [][NextHelper]_vars

\* C27: the call returns normally only after the helper answered its POST
\* with status 200 and success true; the request is sent only after a
\* health check was answered, and after a launch only within the bounded
\* polling; every other end of the call is an exception; and the tables are
\* those the helper process left, the call itself writes none.
C27_HelperAllOrFailure ==
    /\ helper.outcome = "returned" =>
          /\ helper.posted
          /\ helper.resp = [status |-> 200, success |-> TRUE]
    /\ helper.posted => helper.ready
    /\ helper.polls <= MaxHealthPolls
    /\ helper.pc = "end" => helper.outcome \in {"returned", "raised"}
    /\ (helper.pc = "end" /\ helper.resp # [status |-> 200, success |-> TRUE]) =>
          helper.outcome = "raised"
    /\ helper.pc # "idle" => Tables(db, cache) = helper.store

\* The helper was down, was launched, became ready within the polling,
\* handled the request writing the tables, and answered success false: the
\* call raised.
C27_Witness ==
    /\ helper.pc = "end"
    /\ helper.started
    /\ helper.polls > 0
    /\ helper.resp = [status |-> 200, success |-> FALSE]
    /\ helper.outcome = "raised"
    /\ cache.regions # {}

\* --- the UI thread performing remote calls

\* C28: the UI thread is never inside CVMManager.get_instances waiting for
\* DescribeInstances: every remote call runs on a worker.
C28_UiNeverCallsRemote == hpc # "gi_fetch"

\* --- the three periodic timers of MainWindow

\* refresh_timer (60 s), db_poll_timer (4 s), pending_poll_timer (2 s).
TimerNames == {"refresh_timer", "db_poll_timer", "pending_poll_timer"}

\* Intervals of one timer that may elapse before its timeout is delivered.
MaxExpired == 2

\* The interval of timer t elapses. The handlers are connected directly to
\* timeout with no flag of their own, so an interval that elapses while the
\* UI thread is inside a handler is remembered by the timer.
TimerExpire(t) ==
    /\ timers.expired[t] < MaxExpired
    /\ timers' = [timers EXCEPT !.expired[t] = @ + 1,
                                !.during = IF timers.running = t THEN @ \cup {t} ELSE @]
    /\ UNCHANGED <<storeVars, threadVars, appVars, opVars_but_timers>>

\* The event loop, back from whatever it ran, emits timeout of an overdue
\* timer once, however many intervals elapsed: the connected handler
\* (refresh_instances or _poll_pending_instances) starts on the UI thread.
TimerDeliver(t) ==
    /\ timers.running = NULL
    /\ timers.expired[t] > 0
    /\ timers' = [timers EXCEPT !.expired[t] = 0, !.running = t,
                                !.deferred = t \in timers.during,
                                !.during = @ \ {t}]
    /\ UNCHANGED <<storeVars, threadVars, appVars, opVars_but_timers>>

\* The handler returns to the event loop.
TimerHandlerReturn ==
    /\ timers.running # NULL
    /\ timers' = [timers EXCEPT !.running = NULL, !.deferred = FALSE]
    /\ UNCHANGED <<storeVars, threadVars, appVars, opVars_but_timers>>

NextTimers ==
    \/ \E t \in TimerNames : TimerExpire(t)
    \/ \E t \in TimerNames : TimerDeliver(t)
    \/ TimerHandlerReturn

SpecTimers == InitStore /\ [][NextTimers]_vars

\* C29: no invocation of a timer's handler runs for a tick that fired while
\* the previous invocation of the same handler was still running.
C29_TickDuringHandlerSkipped == ~(timers.running # NULL /\ timers.deferred)

\* --- CVMApp.run_in_background and closeEvent

\* The QThread objects run_in_background creates.
BgThreads == {"th1", "th2", "th3"}

\* QThread.isRunning(): the task runs, or the thread's event loop does, after
\* the task raised ("loop") or until the quit it was sent takes effect.
isRunning(k) == bg_threads.state[k] \in {"task", "loop", "quitting"}

\* run_in_background: a QThread and its Worker are made, the thread is
\* appended to _bg_threads and started.
RunInBackground(k) ==
    /\ ~bg_threads.closed
    /\ bg_threads.state[k] = "unused"
    /\ bg_threads' = [bg_threads EXCEPT !.registry = @ \cup {k}, !.state[k] = "task"]
    /\ UNCHANGED <<storeVars, threadVars, appVars, opVars_but_bg_threads>>

\* Worker.run: func returned, finished(result) is emitted: thread.quit is
\* called and handle_finished is due on the UI thread.
TaskFinish(k) ==
    /\ bg_threads.state[k] = "task"
    /\ bg_threads' = [bg_threads EXCEPT !.state[k] = "quitting", !.signal[k] = "finished"]
    /\ UNCHANGED <<storeVars, threadVars, appVars, opVars_but_bg_threads>>

\* Worker.run: func raised, error(str(e)) is emitted: handle_error is due on
\* the UI thread; nothing connects error to thread.quit.
TaskRaise(k) ==
    /\ bg_threads.state[k] = "task"
    /\ bg_threads' = [bg_threads EXCEPT !.state[k] = "loop", !.signal[k] = "error"]
    /\ UNCHANGED <<storeVars, threadVars, appVars, opVars_but_bg_threads>>

\* The thread's event loop returns after quit.
ThreadExit(k) ==
    /\ bg_threads.state[k] = "quitting"
    /\ bg_threads' = [bg_threads EXCEPT !.state[k] = "stopped"]
    /\ UNCHANGED <<storeVars, threadVars, appVars, opVars_but_bg_threads>>

\* handle_finished / handle_error on the UI thread: after the callback,
\* `self._bg_threads = [t for t in self._bg_threads if t is not thread]`.
HandleSignal(k) ==
    /\ bg_threads.signal[k] # "none"
    /\ bg_threads' = [bg_threads EXCEPT !.registry = @ \ {k}, !.signal[k] = "none"]
    /\ UNCHANGED <<storeVars, threadVars, appVars, opVars_but_bg_threads>>

\* closeEvent, the dialog accepted: each thread of _bg_threads that is
\* running gets quit(), wait(3000), and terminate() and wait(1000) if it
\* still runs; then _bg_threads.clear(). The other threads are not visited.
CloseEvent ==
    /\ ~bg_threads.closed
    /\ bg_threads' = [bg_threads EXCEPT
           !.registry = {},
           !.closed = TRUE,
           !.state = [k \in BgThreads |->
                         IF k \in bg_threads.registry /\ isRunning(k) THEN "stopped" ELSE @[k]]]
    /\ UNCHANGED <<storeVars, threadVars, appVars, opVars_but_bg_threads>>

NextThreads ==
    \/ \E k \in BgThreads : RunInBackground(k)
    \/ \E k \in BgThreads : TaskFinish(k)
    \/ \E k \in BgThreads : TaskRaise(k)
    \/ \E k \in BgThreads : ThreadExit(k)
    \/ \E k \in BgThreads : HandleSignal(k)
    \/ CloseEvent

SpecThreads == InitStore /\ [][NextThreads]_vars

\* C30: a started thread that still runs and was not sent quit is in
\* _bg_threads, whether its task finished or raised; after a confirmed
\* shutdown no such thread is left running and the registry is empty.
C30_ShutdownDrainsWorkers ==
    /\ \A k \in BgThreads :
          bg_threads.state[k] \in {"task", "loop"} => k \in bg_threads.registry
    /\ bg_threads.closed =>
          /\ bg_threads.registry = {}
          /\ \A k \in BgThreads : bg_threads.state[k] \notin {"task", "loop"}

\* --- config_manager and the config table
\* Of the twelve columns the model keeps four: secret_id (default None),
\* default_region (one column behind api.default_region and
\* instance.default_region), default_zone (default None) and
\* default_disk_type (default "CLOUD_PREMIUM"); the others are handled as
\* one of these is.

\* get_default_config().
get_default_config ==
    [api |-> [secret_id |-> NULL, default_region |-> "ap-beijing"],
     instance |-> [default_region |-> "ap-beijing", default_zone |-> NULL,
                   default_disk_type |-> "CLOUD_PREMIUM"]]

\* The rows the config table may hold: any column may be NULL (a row
\* migrated from config_cache, or written before a column existed).
ConfigRows ==
    [secret_id : {NULL, "AKID"}, default_region : {NULL, "ap-shanghai"},
     default_zone : {NULL, "ap-shanghai-1"}, default_disk_type : {NULL, "CLOUD_SSD"}]

\* dict.update: the keys of e replace those of d.
dict_update(d, e) ==
    [k \in DOMAIN d \cup DOMAIN e |-> IF k \in DOMAIN e THEN e[k] ELSE d[k]]

\* DBManager.get_config_struct(default): without a row `default or {}`,
\* else both sections built from the row's columns.
get_config_struct(row, default) ==
    IF row = None THEN default
    ELSE [api |-> [secret_id |-> row[1].secret_id,
                   default_region |-> row[1].default_region],
          instance |-> [default_region |-> row[1].default_region,
                        default_zone |-> row[1].default_zone,
                        default_disk_type |-> row[1].default_disk_type]]

\* DBManager.set_config_struct(config): the row with id 1 is inserted, or
\* every column of it overwritten, with config's values.
set_config_struct(config) ==
    Some([secret_id |-> config.api.secret_id,
          default_region |-> config.api.default_region,
          default_zone |-> config.instance.default_zone,
          default_disk_type |-> config.instance.default_disk_type])

\* load_config(): merged = default.copy(); merged.update(cfg); then each
\* section of merged is updated with the same section of cfg.
load_config(row) ==
    LET cfg == get_config_struct(row, get_default_config)
        merged == dict_update(get_default_config, cfg)
    IN  [merged EXCEPT !.api = dict_update(@, cfg.api),
                       !.instance = dict_update(@, cfg.instance)]

\* The config table of the file at start: empty, or a row.
InitConfig ==
    /\ db = <<>>
    /\ lock = Free
    /\ db_singleton = TRUE
    /\ \E row \in {None} \cup {Some(r) : r \in ConfigRows} :
        cache = [NoCache EXCEPT !.config = row]
    /\ InitThreads
    /\ call = NoCall
    /\ step = "idle"
    /\ InitApp

\* ensure_config_file(): without a row the defaults are written.
EnsureConfigFile ==
    /\ conf' = [op |-> "ensure_config_file", before |-> load_config(cache.config),
                given |-> <<>>, result |-> <<>>]
    /\ cache' = IF cache.config = None
                THEN [cache EXCEPT !.config = set_config_struct(get_default_config)]
                ELSE cache
    /\ UNCHANGED <<db, lock, db_singleton, threadVars, appVars, opVars_but_conf>>

\* get_api_config() / get_instance_config(): load_config() and a section.
ConfLoad ==
    /\ conf' = [op |-> "load_config", before |-> load_config(cache.config),
                given |-> <<>>, result |-> load_config(cache.config)]
    /\ UNCHANGED <<storeVars, threadVars, appVars, opVars_but_conf>>

\* save_api_config(secret_id, secret_key, default_region): load_config(),
\* config["api"] replaced, save_config(config).
ConfSaveApi ==
    \E secret_id \in {"AKID", "AKID2"}, default_region \in Regions :
        LET config == load_config(cache.config)
            api == [secret_id |-> secret_id, default_region |-> default_region]
        IN  /\ cache' = [cache EXCEPT !.config = set_config_struct([config EXCEPT !.api = api])]
            /\ conf' = [op |-> "save_api_config", before |-> config, given |-> api,
                        result |-> <<>>]
            /\ UNCHANGED <<db, lock, db_singleton, threadVars, appVars, opVars_but_conf>>

\* save_instance_config(...): load_config(), config["instance"] replaced,
\* save_config(config).
ConfSaveInstance ==
    \E default_region \in Regions, default_zone \in {NULL, "ap-beijing-1"},
       default_disk_type \in {"CLOUD_PREMIUM", "CLOUD_SSD"} :
        LET config == load_config(cache.config)
            instance == [default_region |-> default_region, default_zone |-> default_zone,
                         default_disk_type |-> default_disk_type]
        IN  /\ cache' = [cache EXCEPT !.config =
                            set_config_struct([config EXCEPT !.instance = instance])]
            /\ conf' = [op |-> "save_instance_config", before |-> config, given |-> instance,
                        result |-> <<>>]
            /\ UNCHANGED <<db, lock, db_singleton, threadVars, appVars, opVars_but_conf>>

NextConfig ==
    \/ EnsureConfigFile
    \/ ConfLoad
    \/ ConfSaveApi
    \/ ConfSaveInstance

SpecConfig == InitConfig /\ [][NextConfig]_vars

\* C31: the configuration a read returns has a value for every field that
\* has a default, whatever columns of the stored row are NULL.
C31_ReadMergesDefaults ==
    conf.op = "load_config" =>
        /\ conf.result.api.default_region # NULL
        /\ conf.result.instance.default_region # NULL
        /\ conf.result.instance.default_disk_type # NULL

\* C32: after a save of one section the other section reads as it did
\* before the save, and the saved section reads as it was given.
C32_SaveMergesFields ==
    /\ conf.op = "save_api_config" =>
          /\ load_config(cache.config).instance = conf.before.instance
          /\ load_config(cache.config).api = conf.given
    /\ conf.op = "save_instance_config" =>
          /\ load_config(cache.config).api = conf.before.api
          /\ load_config(cache.config).instance = conf.given

\* --- CVMManager.get_instances: pages and chunks
\* Instances are numbered here: the account holds 1..total, in the order
\* DescribeInstances lists them.

\* limit of a page and chunk_size of an id query.
PageLimit == 100

\* Instances the account may hold.
MaxInstances == 250

\* Lengths of the id lists asked for.
IdListLengths == {1, PageLimit - 1, PageLimit, PageLimit + 1, 2 * PageLimit, MaxInstances}

\* The elements of a sequence.
Range(q) == {q[k] : k \in 1..Len(q)}

\* What DescribeInstances answers to Offset/Limit, and to InstanceIds.
describe_page(total, offset, limit) ==
    [k \in 1..(IF total - offset > limit THEN limit
               ELSE IF total - offset > 0 THEN total - offset ELSE 0) |-> offset + k]
describe_ids(total, batch_ids) == SelectSeq(batch_ids, LAMBDA x : x <= total)

\* The loop ending after its first page, whatever its length.
page_break_always(batch, limit) == TRUE

\* `if not batch: break` and `if len(batch) < limit: break`.
page_break(batch, limit) == batch = <<>> \/ Len(batch) < limit

\* get_instances(region, instance_ids) is called: a full listing (None) or
\* a list of ids, some of which the account may not hold.
PagingCall ==
    /\ paging.pc = "idle"
    /\ \E total \in 0..MaxInstances, n \in {0} \cup IdListLengths :
        /\ n <= MaxInstances
        /\ paging' = [NoPaging EXCEPT !.pc = "fetch", !.total = total,
                                      !.instance_ids = [k \in 1..n |-> k]]
    /\ UNCHANGED <<storeVars, threadVars, appVars, opVars_but_paging>>

\* One _describe_instances request: the next chunk of ids, or the page at
\* offset; an exception of it leaves get_instances. After the last chunk,
\* or a page that is empty or short, the loop ends.
PagingFetch ==
    /\ paging.pc = "fetch"
    /\ \/ paging' = [paging EXCEPT !.pc = "raised"]
       \/ IF paging.instance_ids # <<>>
          THEN LET last == IF paging.i + PageLimit < Len(paging.instance_ids)
                           THEN paging.i + PageLimit ELSE Len(paging.instance_ids)
                   batch_ids == SubSeq(paging.instance_ids, paging.i + 1, last)
               IN  paging' = [paging EXCEPT
                       !.requests = Append(@, [offset |-> 0, limit |-> PageLimit,
                                               ids |-> Range(batch_ids)]),
                       !.all_instances = @ \o describe_ids(paging.total, batch_ids),
                       !.i = @ + PageLimit,
                       !.pc = IF paging.i + PageLimit < Len(paging.instance_ids)
                              THEN "fetch" ELSE "store"]
          ELSE LET batch == describe_page(paging.total, paging.offset, PageLimit)
               IN  paging' = [paging EXCEPT
                       !.requests = Append(@, [offset |-> paging.offset, limit |-> PageLimit,
                                               ids |-> {}]),
                       !.all_instances = @ \o batch,
                       !.offset = IF page_break(batch, PageLimit) THEN @ ELSE @ + PageLimit,
                       !.pc = IF page_break(batch, PageLimit) THEN "store" ELSE "fetch"]
    /\ UNCHANGED <<storeVars, threadVars, appVars, opVars_but_paging>>

\* After the loop: db.upsert_instances(instances), and for a full listing
\* db.soft_delete_missing(valid_ids) with the ids of all of them.
PagingStore ==
    /\ paging.pc = "store"
    /\ paging' = [paging EXCEPT
           !.pc = "done",
           !.upserted = Append(@, Range(paging.all_instances)),
           !.soft_deleted = IF paging.instance_ids = <<>>
                            THEN Append(@, Range(paging.all_instances)) ELSE @]
    /\ UNCHANGED <<storeVars, threadVars, appVars, opVars_but_paging>>

NextPaging ==
    \/ PagingCall
    \/ PagingFetch
    \/ PagingStore

SpecPaging == InitStore /\ [][NextPaging]_vars

\* C33: a full listing asks for the pages at offsets 0, 100, 200, ..., every
\* page but the last being full and the last one empty or short, and calls
\* soft_delete_missing once, after the last page, with the ids of the whole
\* account; a listing by ids asks for at most 100 ids per request, the
\* requests' ids partition the ids asked for, and it soft-deletes nothing.
C33_Pagination ==
    LET reqs == paging.requests
        full == paging.instance_ids = <<>>
    IN  /\ \A k \in 1..Len(reqs) : reqs[k].limit = PageLimit /\ Cardinality(reqs[k].ids) <= PageLimit
        /\ full =>
              /\ \A k \in 1..Len(reqs) : reqs[k].offset = (k - 1) * PageLimit
              /\ paging.pc # "done" => paging.soft_deleted = <<>>
              /\ paging.pc \in {"store", "done"} =>
                    /\ Range(paging.all_instances) = 1..paging.total
                    /\ Len(reqs) = (paging.total \div PageLimit) + 1
              /\ paging.pc = "done" => paging.soft_deleted = <<1..paging.total>>
        /\ ~full =>
              /\ paging.soft_deleted = <<>>
              /\ \A j, k \in 1..Len(reqs) : j # k => reqs[j].ids \cap reqs[k].ids = {}
              /\ \A k \in 1..Len(reqs) : reqs[k].ids # {}
              /\ paging.pc \in {"store", "done"} =>
                    UNION {reqs[k].ids : k \in 1..Len(reqs)} = Range(paging.instance_ids)

\* A full listing of 250 instances ended after the pages at 0, 100 and 200.
C33_Witness ==
    /\ paging.pc = "done"
    /\ paging.instance_ids = <<>>
    /\ paging.total = MaxInstances
    /\ Len(paging.requests) = 3
    /\ paging.requests[3].offset = 200
    /\ paging.soft_deleted = <<1..MaxInstances>>

\* --- a create that ends while a full resync is under way

\* C34: when a full listing has applied its upsert and soft_delete_missing,
\* a row that create wrote as PENDING in the meantime, for an instance of
\* the listed region that the listing was fetched too early to hold, is
\* still listed by list_instances.
C34_CreateSurvivesResync ==
    (hpc = "gi_soft" /\ pc["ui"] = "idle" /\ is_empty(gi.ids)) =>
        \A i \in wk.ids :
            (/\ wk.task = "create"
             /\ wk.pc = "ok" \/ (wk.pc = "upsert" /\ pc["w1"] = "idle")
             /\ i \in DOMAIN db
             /\ i \notin BatchIds(gi.ret)
             /\ \E k \in 1..Len(gi.ret) : gi.ret[k].Region = db[i].region) =>
                i \in list_select(db)


\* C35: after a failed start (stop), once on_error has finished, no target
\* instance's stored status is still STARTING (STOPPING), also when the
\* capture read returned nothing for it and the remote lookup of the rollback
\* raised or returned no instance.
C35_NoStuckTransient ==
    (hpc = "cmd_done" /\ cmd.phase = "error") =>
        \A i \in cmd.valid_ids \cap DOMAIN db :
            db[i].status # transient(cmd.kind)


\* The disk types one create frame sent: none twice, the fallback ones in
\* the priority order, and a warning recorded for each fallback request.
disk_requests_ok(f) ==
    /\ \A j, k \in 1..Len(f.requests) : j < k => f.requests[j] # f.requests[k]
    /\ \A j, k \in 2..Len(f.requests) :
          j < k => \E a, b \in 1..Len(FallbackTypes) :
                      a < b /\ FallbackTypes[a] = f.requests[j] /\ FallbackTypes[b] = f.requests[k]
    /\ f.requests # <<>> => Len(f.warnings) = Len(f.requests) - 1
    /\ \A k \in 1..Len(f.warnings) : f.warnings[k][2] = f.requests[k + 1]

\* C36: within one create call every disk type sent to RunInstances (the
\* first one, CLOUD_PREMIUM when the caller passed none, and each fallback)
\* is sent at most once, the fallback types go out in the order
\* CLOUD_PREMIUM, CLOUD_SSD, CLOUD_BSSD, CLOUD_HSSD, and each fallback
\* request has its warning.
C36_DiskTypeSentOnce ==
    /\ \A k \in 1..Len(creation.stack) :
          creation.stack[k].fn = "create" => disk_requests_ok(creation.stack[k])
    /\ creation.final # None => disk_requests_ok(creation.final[1])


\* --- the images table, by (region, image type)

\* ImageType values of DescribeImages.
ImageTypes == {"PUBLIC_IMAGE", "PRIVATE_IMAGE"}

\* ORDER BY image_name over the names in use.
NameOrder == <<"CentOS", "Ubuntu">>

\* The image records callers pass: an id, a name, and a type of their own
\* or none.
ImageRecords ==
    {[ImageId |-> x[1], ImageName |-> x[2], ImageType |-> t] :
        x \in {<<"img-1", "Ubuntu">>, <<"img-2", "CentOS">>}, t \in ImageTypes \cup {NULL}}

\* Lists of up to two of them, of different images.
ImageLists ==
    {<<>>} \cup {<<a>> : a \in ImageRecords}
           \cup {<<a, b>> : a \in {x \in ImageRecords : x.ImageId = "img-1"},
                            b \in {x \in ImageRecords : x.ImageId = "img-2"}}

\* The tuple replace_images appends to batch for one record.
image_row(img, rg, image_type) ==
    [image_id |-> img.ImageId, image_name |-> img.ImageName,
     image_type |-> or_else(img.ImageType, image_type), region |-> rg]

\* replace_images(region, image_type, images) on the table rows: the DELETE
\* for the pair, then executemany of the plain INSERT; a row that repeats a
\* stored (image_id, region) raises IntegrityError and the connection's
\* context manager rolls the DELETE back.
replace_images(rows, rg, image_type, images) ==
    IF or_else(rg, NULL) = NULL \/ or_else(image_type, NULL) = NULL
    THEN [rows |-> rows, raised |-> FALSE]
    ELSE LET kept  == {m \in rows : ~(m.region = rg /\ m.image_type = image_type)}
             batch == [k \in 1..Len(images) |-> image_row(images[k], rg, image_type)]
             clash == \E k \in 1..Len(batch) :
                         \/ \E m \in kept : m.image_id = batch[k].image_id /\ m.region = rg
                         \/ \E j \in 1..(k - 1) : batch[j].image_id = batch[k].image_id
         IN  IF clash THEN [rows |-> rows, raised |-> TRUE]
             ELSE [rows |-> kept \cup Range(batch), raised |-> FALSE]

\* The rows of sel in the order of their names.
RECURSIVE by_name(_, _)
by_name(sel, names) ==
    IF names = <<>> THEN <<>>
    ELSE LET named == {m \in sel : m.image_name = Head(names)}
         IN  (IF named = {} THEN <<>>
              ELSE LET m == CHOOSE m \in named : TRUE
                   IN  <<[ImageId |-> m.image_id, ImageName |-> m.image_name,
                          ImageType |-> m.image_type, Region |-> m.region]>>)
             \o by_name(sel, Tail(names))

\* list_images(region, image_type): the rows of the region, of the type when
\* one is given, ORDER BY image_name.
list_images(rows, rg, image_type) ==
    IF or_else(rg, NULL) = NULL THEN <<>>
    ELSE by_name({m \in rows : /\ m.region = rg
                               /\ or_else(image_type, NULL) # NULL => m.image_type = image_type},
                 NameOrder)

\* A caller replaces the images of a region and type.
ImgReplace ==
    /\ \E rg \in Regions \cup {NULL}, t \in ImageTypes \cup {NULL}, s \in ImageLists :
        LET r == replace_images(imgs.rows, rg, t, s)
        IN  imgs' = [rows |-> r.rows, op |-> "replace_images", region |-> rg, image_type |-> t,
                     images |-> s, before |-> imgs.rows, raised |-> r.raised, result |-> <<>>]
    /\ UNCHANGED <<storeVars, threadVars, appVars, opVars_but_imgs>>

\* A caller lists the images of a region, of one type or of all.
ImgList ==
    /\ \E rg \in Regions \cup {NULL}, t \in ImageTypes \cup {NULL} :
        imgs' = [rows |-> imgs.rows, op |-> "list_images", region |-> rg, image_type |-> t,
                 images |-> <<>>, before |-> imgs.rows, raised |-> FALSE,
                 result |-> list_images(imgs.rows, rg, t)]
    /\ UNCHANGED <<storeVars, threadVars, appVars, opVars_but_imgs>>

NextImages ==
    \/ ImgReplace
    \/ ImgList

SpecImages == InitStore /\ [][NextImages]_vars

\* C37: after replace_images(R, T, S) has returned, list_images(R, T) holds
\* exactly the images of S, and the rows of every other (region, type) pair
\* are the ones stored before the call, whatever type the records of S
\* carry themselves and whatever replaces came before.
C37_ImageReplaceScoped ==
    (/\ imgs.op = "replace_images"
     /\ imgs.region # NULL
     /\ imgs.image_type # NULL
     /\ ~imgs.raised) =>
        /\ {x.ImageId : x \in Range(list_images(imgs.rows, imgs.region, imgs.image_type))}
              = {x.ImageId : x \in Range(imgs.images)}
        /\ {m \in imgs.rows : <<m.region, m.image_type>> # <<imgs.region, imgs.image_type>>}
              = {m \in imgs.before : <<m.region, m.image_type>> # <<imgs.region, imgs.image_type>>}


\* --- a terminated instance while the service tears it down

\* CVMManager.terminate(selected_ids, skip_db_update=True): the API accepts;
\* the instances go on being listed, as TERMINATING, until they are released.
TermRunAccepted ==
    /\ cmd.task = "term_run"
    /\ \A i \in cmd.selected :
        remote[i].state \notin {"NONE", "RELEASED", "TERMINATING"} /\ remote[i].region = region
    /\ remote' = [i \in Ids |-> IF i \in cmd.selected
                                THEN [remote[i] EXCEPT !.state = "TERMINATING"]
                                ELSE remote[i]]
    /\ cmd' = [cmd EXCEPT !.task = "term_ok"]
    /\ UNCHANGED <<storeVars, threadVars, opVars, call, step, region, hpc, gi, rf, wk, view, watch>>

\* The service has torn an instance down and lists it no more.
CloudRelease ==
    /\ \E i \in Ids :
        /\ remote[i].state = "TERMINATING"
        /\ remote' = [remote EXCEPT ![i] = [NoRemote[i] EXCEPT !.state = "RELEASED"]]
    /\ UNCHANGED <<storeVars, threadVars, opVars, call, step, region, hpc, gi, rf, cmd, wk, view, watch>>

\* Terminate commands with the one-minute resynchronisation, and no worker
\* beside the command's own: the capture read always finds the lock free, so
\* the rollback never has to ask the API.
NextTeardown ==
    \/ TermBegin
    \/ TermCancel
    \/ TermExecute
    \/ TermCapture
    \/ TermCaptured
    \/ TermMark
    \/ TermSpawn
    \/ TermRunAccepted
    \/ TermRunFail
    \/ TermOnSuccess
    \/ TermOnError
    \/ TermRollback
    \/ TermDone
    \/ CloudRelease
    \/ RefreshMark
    \/ RefreshFetch
    \/ RefreshSynced
    \/ GiRaise
    \/ GiFetch
    \/ GiSoftDelete
    \/ GiReturn
    \/ DisplayList
    \/ DisplayShow
    \/ \E t \in Threads :
        \/ soft_delete_return(t)
        \/ write_acquire(t)
        \/ write_commit(t)
        \/ read_try(t)
        \/ read_select(t)
        \/ get_db(t)

SpecTeardown == InitCmd /\ [][NextTeardown]_vars

\* C38: an instance whose terminate call the service has accepted is not
\* among the rows list_instances() returns, in any later state, whatever
\* resyncs and status writes follow and whether or not the service still
\* lists it.
C38_TerminatedStaysHidden ==
    \A i \in Ids :
        remote[i].state \in {"TERMINATING", "RELEASED"} => i \notin list_select(db)


\* --- core.preload.stop_go_server at exit

\* The helper is started by hand, outside the application.
HelperManual ==
    /\ helper.pc = "idle"
    /\ helper.server = "down"
    /\ helper' = [helper EXCEPT !.server = "up"]
    /\ UNCHANGED <<storeVars, threadVars, appVars, opVars_but_helper>>

\* stop_go_server(): `proc = _GO_PROC; _GO_PROC = None`; without a handle it
\* returns, else a process still alive is terminated.
StopGoServer ==
    /\ helper.pc \in {"idle", "end"}
    /\ helper' = [helper EXCEPT !.pc = "exited", !.go_proc = <<>>,
                                !.server_at_exit = helper.server,
                                !.server = IF helper.go_proc # <<>> THEN "down" ELSE @]
    /\ UNCHANGED <<storeVars, threadVars, appVars, opVars_but_helper>>

\* Preloads through the helper, then the application exits.
NextExit ==
    \/ NextHelper
    \/ HelperManual
    \/ StopGoServer

SpecExit == InitStore /\ [][NextExit]_vars

\* C39: after stop_go_server() a helper this process launched is not
\* running any more, and a helper it did not launch is in the state it was
\* in before the call.
C39_HelperCleanup ==
    helper.pc = "exited" =>
        IF helper.launched THEN helper.server = "down"
        ELSE helper.server = helper.server_at_exit


\* --- update_instance_status on rows that hold addresses

\* upsert_instances([record]) for an instance with or without addresses.
StatusUpsert ==
    /\ \E i \in Ids, st \in {"RUNNING", "STOPPED"},
          pub \in {<<>>, <<"1.2.3.4">>}, priv \in {<<>>, <<"10.0.0.4">>} :
        LET b == <<Record(i, st, "ap-beijing", pub, priv, NULL, NULL)>>
        IN  /\ db' = upsert_instances(db, b)
            /\ call' = Call("upsert_instances", b, None, NULL, NULL)
    /\ UNCHANGED <<cache, lock, db_singleton, threadVars, step, sysVars>>

\* update_instance_status(instance_id, status, public_ip, private_ip), each
\* address given or left at its default None; the two are kept with the call.
StatusUpdate ==
    /\ \E i \in Ids, st \in {"STARTING", "RUNNING", Sentinel},
          pub \in {NULL, "5.6.7.8"}, priv \in {NULL, "10.0.0.9"} :
        /\ db' = update_instance_status(db, i, st, pub, priv)
        /\ call' = Call("update_instance_status", <<pub, priv>>, None, i, st)
    /\ UNCHANGED <<cache, lock, db_singleton, threadVars, step, sysVars>>

NextStatus ==
    \/ StatusUpsert
    \/ StatusUpdate

SpecStatus == InitStore /\ [][NextStatus]_vars

\* C40: update_instance_status(id, status, public_ip, private_ip) creates
\* no row, changes no row but the one with that id, gives that row the
\* status, keeps its stored public (private) address when that argument is
\* not given, and leaves every other column of it as it was.
C40_StatusUpdateFrame ==
    [][call'.op = "update_instance_status" =>
          /\ DOMAIN db' = DOMAIN db
          /\ \A j \in DOMAIN db : j # call'.id => db'[j] = db[j]
          /\ call'.id \in DOMAIN db =>
                /\ db'[call'.id].status = call'.status
                /\ call'.batch[1] = NULL => db'[call'.id].public_ip = db[call'.id].public_ip
                /\ call'.batch[2] = NULL => db'[call'.id].private_ip = db[call'.id].private_ip
                /\ db'[call'.id] = [db[call'.id] EXCEPT
                                        !.status = db'[call'.id].status,
                                        !.public_ip = db'[call'.id].public_ip,
                                        !.private_ip = db'[call'.id].private_ip]]_vars

\* A status update without a public address was applied to a row that
\* holds one, beside another row; the row has the status and the address.
C40_Witness ==
    /\ call.op = "update_instance_status"
    /\ call.batch[1] = NULL
    /\ call.batch[2] # NULL
    /\ call.id \in DOMAIN db
    /\ DOMAIN db # {call.id}
    /\ db[call.id].status = "STARTING"
    /\ db[call.id].public_ip = "1.2.3.4"
    /\ db[call.id].private_ip = "10.0.0.9"

====
